---- MODULE Spec2Model ----
(***************************************************************************)
(* Model of the assignment engine of src/src/lib/shiftScheduler.ts         *)
(* (class ShiftScheduler, lines 323-1058, and generateShiftSchedule).      *)
(*                                                                         *)
(* Conventions of the model                                                *)
(*  - A calendar date is a day number; day 0 is a Monday.  The code's      *)
(*    Date objects are UTC midnights built by new Date("YYYY-MM-DD") and   *)
(*    the process runs at a UTC offset where getDay() and toISOString()    *)
(*    name the same day, so the date string and the Date are one number.   *)
(*  - Times "HH:MM" are well formed and kept as records [h, m]; the        *)
(*    lexicographic comparison of the strings is the comparison of (h, m). *)
(*  - hours are kept in minutes (the code's value times 60) so that they   *)
(*    stay integers.                                                       *)
(*  - Employee and shift-type ids are unique in the input collections.     *)
(*  - A conflict string is kept as the record of the values it is built    *)
(*    from (kind, shift, employee, date); names are unique, so two strings *)
(*    are equal exactly when the records are.                              *)
(***************************************************************************)
EXTENDS Integers, Sequences, FiniteSets, TLC

VARIABLES
    options,               \* this.options (never assigned after construction)
    assignments,           \* this.assignments
    conflicts,             \* this.conflicts
    employeeWorkloads,     \* this.employeeWorkloads
    teamWorkloads,         \* this.teamWorkloads
    teamTargets,           \* this.teamTargets
    vmAssignmentsByDate,   \* this.vmAssignmentsByDate
    apprenticeIndices,     \* this.apprenticeIndices
    apprenticeShiftCounts, \* this.apprenticeShiftCounts
    pc,                    \* position in schedule(): "week", "shift", "slot", "done";
                           \* "apply" while applyMandatoryFollowUps is called directly
    weekStart,             \* local weekStart of schedule()
    firstWeek,             \* local firstWeek of schedule()
    pos,                   \* index of the current (group, day, shiftType) of the week
    assignedCount,         \* local assignedCount of the slot loop
    origin,                \* per assignment, the branch of the code that pushed it
    result,                \* the value returned by schedule()
    lastCall,              \* trigger of the last direct applyMandatoryFollowUps call
    attempted,             \* the (day, shift type) pairs the slot loop was entered for
                           \* in the current week, in order
    probe,                 \* the last direct call of a predicate and what it returned
    currentDate,           \* local currentDate of schedule() of the weekly-rotation variant
    currentWeek,           \* local currentWeek of schedule() of the weekly-rotation variant
    previous               \* the value returned by the call before this one, if any

vars == <<options, assignments, conflicts, employeeWorkloads, teamWorkloads,
          teamTargets, vmAssignmentsByDate, apprenticeIndices,
          apprenticeShiftCounts, pc, weekStart, firstWeek, pos, assignedCount,
          origin, result, lastCall, attempted, probe, currentDate, currentWeek,
          previous>>

\* ---------------------------------------------------------------------------
\* Bounds of the model
\* ---------------------------------------------------------------------------
MaxNeed == 2
MaxEndDate == 7
MaxCalls == 2

\* ---------------------------------------------------------------------------
\* Small helpers on sequences
\* ---------------------------------------------------------------------------
Range(s) == {s[i] : i \in DOMAIN s}

RECURSIVE SelectIdx(_, _, _)
\* indices i >= from of s, in order, as used by filter/find/some
SelectIdx(s, P(_), from) ==
    IF from > Len(s) THEN <<>>
    ELSE IF P(s[from]) THEN <<from>> \o SelectIdx(s, P, from + 1)
    ELSE SelectIdx(s, P, from + 1)

Count(s, P(_)) == Cardinality({i \in DOMAIN s : P(s[i])})

\* const x = e; F(x): the value of F at e, with e evaluated once
Bind(e, F(_)) == CHOOSE r \in {F(x) : x \in {e}} : TRUE

NoEmployee == "null"
NoDay == "null"
NoShift == "undefined"

\* ---------------------------------------------------------------------------
\* Calendar utilities
\* ---------------------------------------------------------------------------
WEEKDAY_MAPPING ==
    <<"sunday", "monday", "tuesday", "wednesday", "thursday", "friday", "saturday">>

\* Date.getDay(): 0 is Sunday; day number 0 is a Monday
getDay(date) == (date + 1) % 7

getWeekdayName(date) ==
    LET dayName == WEEKDAY_MAPPING[getDay(date) + 1]
    IN  IF dayName \in {"monday", "tuesday", "wednesday", "thursday", "friday"}
        THEN dayName ELSE NoDay

dateDiffInDays(a, b) == b - a

calculateShiftDuration(shiftType) ==
    LET startMinutes == shiftType.startTime.h * 60 + shiftType.startTime.m
        endMinutes == shiftType.endTime.h * 60 + shiftType.endTime.m
    IN  IF endMinutes < startMinutes
        THEN (endMinutes + 24 * 60) - startMinutes
        ELSE endMinutes - startMinutes

\* "HH:MM" < "HH:MM" on well-formed strings
TimeLess(t1, t2) == t1.h < t2.h \/ (t1.h = t2.h /\ t1.m < t2.m)

\* no demand is read
NeedOf_None(shiftType, weekday) == 0

\* shiftType.weeklyNeeds[weekday] ?? 0
NeedOf(shiftType, weekday) ==
    IF weekday \in DOMAIN shiftType.weeklyNeeds THEN shiftType.weeklyNeeds[weekday] ELSE 0

\* ---------------------------------------------------------------------------
\* Lookups in the options
\* ---------------------------------------------------------------------------
ShiftIds(opts) == {opts.shiftTypes[i].id : i \in DOMAIN opts.shiftTypes}

\* this.shiftMap[id] is defined
KnownShift(opts, id) == id \in ShiftIds(opts)

\* this.shiftMap[id], for a known id
shiftMap(opts, id) == CHOOSE st \in Range(opts.shiftTypes) : st.id = id

\* options.shiftTypes.find(s => s.name === name)?.id
ShiftIdByName(opts, name) ==
    LET idx == SelectIdx(opts.shiftTypes, LAMBDA st : st.name = name, 1)
    IN  IF idx = <<>> THEN NoShift ELSE opts.shiftTypes[idx[1]].id

zeroShiftId(opts) == ShiftIdByName(opts, "0.")
firstVmShiftId(opts) == ShiftIdByName(opts, "1. VM")

\* options.employees.find(e => e.id === id) finds somebody
KnownEmployee(opts, id) == \E i \in DOMAIN opts.employees : opts.employees[i].id = id

\* options.employees.find(e => e.id === id), for a known id
FindEmployee(opts, id) ==
    opts.employees[SelectIdx(opts.employees, LAMBDA e : e.id = id, 1)[1]]

IsApprentice(emp) == emp.employeeType = "azubi" /\ emp.lehrjahr # 0

\* this.apprenticesByYear[year] as a set (the list is only used for its length)
apprenticesByYear(opts, year) ==
    {e \in Range(opts.employees) : IsApprentice(e) /\ e.lehrjahr = year}

ApprenticeYears(opts) == {e.lehrjahr : e \in {x \in Range(opts.employees) : IsApprentice(x)}}

\* ---------------------------------------------------------------------------
\* Availability evaluator
\* ---------------------------------------------------------------------------
\* the afternoon flag is asked for shifts that start in the afternoon only
NeedsAfternoon_StartOnly(shiftStartHour, shiftEndHour) ==
    shiftStartHour >= 12 /\ shiftStartHour < 24

\* line 538: the condition under which the "_PM" flag is required
NeedsAfternoon(shiftStartHour, shiftEndHour) ==
    shiftEndHour >= 12 \/ (shiftStartHour >= 12 /\ shiftStartHour < 24)

isEmployeeAvailable(opts, employee, date, shiftType) ==
    LET absence == \E a \in Range(opts.absences) :
                       /\ a.employeeId = employee.id
                       /\ date >= a.startDate
                       /\ date <= a.endDate
        weekday == getWeekdayName(date)
        shiftStartHour == shiftType.startTime.h
        shiftEndHour == shiftType.endTime.h
        nextWeekday == getWeekdayName(date + 1)
    IN  IF absence THEN FALSE
        ELSE IF weekday = NoDay THEN FALSE
        ELSE IF shiftStartHour < 12 /\ <<weekday, "AM">> \notin employee.availability
        THEN FALSE
        ELSE IF NeedsAfternoon(shiftStartHour, shiftEndHour)
                /\ <<weekday, "PM">> \notin employee.availability
        THEN FALSE
        ELSE IF TimeLess(shiftType.endTime, shiftType.startTime)
                /\ nextWeekday # NoDay /\ shiftEndHour > 0 /\ shiftEndHour < 12
                /\ <<nextWeekday, "AM">> \notin employee.availability
        THEN FALSE
        ELSE TRUE

\* ---------------------------------------------------------------------------
\* Rule engine
\* ---------------------------------------------------------------------------
\* the test for a primary of the same date is left out
HasPrimaryOn_Never(asg, employeeId, dateStr) == FALSE

HasPrimaryOn(asg, employeeId, dateStr) ==
    \E i \in DOMAIN asg :
        asg[i].employeeId = employeeId /\ asg[i].date = dateStr /\ ~asg[i].isFollowUp

HasShiftOn(asg, employeeId, dateStr, shiftId) ==
    \E i \in DOMAIN asg :
        asg[i].employeeId = employeeId /\ asg[i].date = dateStr /\ asg[i].shiftId = shiftId

\* the filter compares the date only
CountFor_AnyShift(asg, dateStr, shiftId) ==
    Count(asg, LAMBDA a : a.date = dateStr)

\* assignments.filter(a => a.date === dateStr && a.shiftId === shiftId).length
CountFor(asg, dateStr, shiftId) ==
    Count(asg, LAMBDA a : a.date = dateStr /\ a.shiftId = shiftId)

\* the next-day mode is never matched
OffsetMatches_SameDayOnly(rule, diff, offset) == rule.sameDay /\ diff = 0

\* (rule.sameDay && diff === 0) || (!rule.sameDay && diff === offset)
OffsetMatches(rule, diff, offset) ==
    (rule.sameDay /\ diff = 0) \/ (~rule.sameDay /\ diff = offset)

violatesForbiddenSequence(opts, asg, employee, date, shiftType) ==
    \E r \in DOMAIN opts.shiftRules : \E i \in DOMAIN asg :
        LET rule == opts.shiftRules[r]
            a == asg[i]
            diff == dateDiffInDays(a.date, date)
        IN  /\ rule.type = "forbidden_sequence"
            /\ a.employeeId = employee.id
            /\ \/ /\ a.shiftId = rule.fromShiftId
                  /\ shiftType.id \in rule.toShiftIds
                  /\ OffsetMatches(rule, diff, 1)
               \/ /\ shiftType.id = rule.fromShiftId
                  /\ a.shiftId \in rule.toShiftIds
                  /\ OffsetMatches(rule, diff, -1)

\* the hard-coded first-year exception of both follow-up functions
FirstYearException(opts, employee, rule, toShift) ==
    LET fromName == IF KnownShift(opts, rule.fromShiftId)
                    THEN shiftMap(opts, rule.fromShiftId).name ELSE NoShift
        toName == toShift.name
    IN  /\ employee.lehrjahr = 1
        /\ rule.sameDay
        /\ \/ (fromName = "2A. VM" /\ toName = "2B. NM")
           \/ (fromName = "2B. VM" /\ toName = "2A. NM")

FollowDate(rule, date) == IF rule.sameDay THEN date ELSE date + 1

ConflictNotAllowed(toShift, employee, followDateStr) ==
    [kind |-> "Folgeschicht nicht erlaubt", shift |-> toShift.name,
     employee |-> employee.id, date |-> followDateStr]

ConflictNotAvailable(toShift, employee, followDateStr) ==
    [kind |-> "nicht verfuegbar fuer Folgeschicht", shift |-> toShift.name,
     employee |-> employee.id, date |-> followDateStr]

RECURSIVE canApplyFrom(_, _, _, _, _, _)
\* a rule whose toShiftId is unknown rejects the candidate
canApplyFrom_RejectUnknown(opts, asg, employee, date, shiftType, r) ==
    IF r > Len(opts.shiftRules) THEN [ok |-> TRUE, pushed |-> <<>>]
    ELSE
    LET rule == opts.shiftRules[r]
        next == canApplyFrom(opts, asg, employee, date, shiftType, r + 1)
        toShift == shiftMap(opts, rule.toShiftId)
        followDate == FollowDate(rule, date)
        weekday == getWeekdayName(followDate)
        demand == IF weekday # NoDay THEN NeedOf(toShift, weekday) ELSE 0
    IN  IF rule.type # "mandatory_follow_up" \/ rule.fromShiftId # shiftType.id THEN next
        ELSE IF ~KnownShift(opts, rule.toShiftId) THEN [ok |-> FALSE, pushed |-> <<>>]
        ELSE IF FirstYearException(opts, employee, rule, toShift) THEN next
        ELSE IF toShift.id \notin employee.allowedShifts
        THEN [ok |-> FALSE, pushed |-> <<ConflictNotAllowed(toShift, employee, followDate)>>]
        ELSE IF ~isEmployeeAvailable(opts, employee, followDate, toShift)
        THEN [ok |-> FALSE, pushed |-> <<ConflictNotAvailable(toShift, employee, followDate)>>]
        ELSE IF HasPrimaryOn(asg, employee.id, followDate)
                \/ HasShiftOn(asg, employee.id, followDate, toShift.id)
        THEN [ok |-> FALSE, pushed |-> <<>>]
        ELSE IF CountFor(asg, followDate, toShift.id) >= demand
        THEN [ok |-> FALSE, pushed |-> <<>>]
        ELSE next

\* the loop of canApplyMandatoryFollowUps from rule index r on; the result is
\* the returned boolean and the conflicts pushed on the way
canApplyFrom(opts, asg, employee, date, shiftType, r) ==
    IF r > Len(opts.shiftRules) THEN [ok |-> TRUE, pushed |-> <<>>]
    ELSE
    LET rule == opts.shiftRules[r]
        next == canApplyFrom(opts, asg, employee, date, shiftType, r + 1)
        toShift == shiftMap(opts, rule.toShiftId)
        followDate == FollowDate(rule, date)
        weekday == getWeekdayName(followDate)
        demand == IF weekday # NoDay THEN NeedOf(toShift, weekday) ELSE 0
    IN  IF rule.type # "mandatory_follow_up" \/ rule.fromShiftId # shiftType.id THEN next
        ELSE IF ~KnownShift(opts, rule.toShiftId) THEN next
        ELSE IF FirstYearException(opts, employee, rule, toShift) THEN next
        ELSE IF toShift.id \notin employee.allowedShifts
        THEN [ok |-> FALSE, pushed |-> <<ConflictNotAllowed(toShift, employee, followDate)>>]
        ELSE IF ~isEmployeeAvailable(opts, employee, followDate, toShift)
        THEN [ok |-> FALSE, pushed |-> <<ConflictNotAvailable(toShift, employee, followDate)>>]
        ELSE IF HasPrimaryOn(asg, employee.id, followDate)
                \/ HasShiftOn(asg, employee.id, followDate, toShift.id)
        THEN [ok |-> FALSE, pushed |-> <<>>]
        ELSE IF CountFor(asg, followDate, toShift.id) >= demand
        THEN [ok |-> FALSE, pushed |-> <<>>]
        ELSE next

canApplyMandatoryFollowUps(opts, asg, employee, date, shiftType) ==
    canApplyFrom(opts, asg, employee, date, shiftType, 1)

\* canAssign: the returned boolean and the conflicts pushed by the follow-up check
canAssign(opts, asg, employee, date, shiftType, dateStr) ==
    IF shiftType.id \notin employee.allowedShifts THEN [ok |-> FALSE, pushed |-> <<>>]
    ELSE IF ~isEmployeeAvailable(opts, employee, date, shiftType)
    THEN [ok |-> FALSE, pushed |-> <<>>]
    ELSE IF HasPrimaryOn(asg, employee.id, dateStr) THEN [ok |-> FALSE, pushed |-> <<>>]
    ELSE IF violatesForbiddenSequence(opts, asg, employee, date, shiftType)
    THEN [ok |-> FALSE, pushed |-> <<>>]
    ELSE canApplyMandatoryFollowUps(opts, asg, employee, date, shiftType)

\* ---------------------------------------------------------------------------
\* Commit of an assignment; eng is the record of the engine's mutable fields
\* ---------------------------------------------------------------------------
BumpApprentice(eng, employee, shiftId) ==
    IF IsApprentice(employee)
       /\ employee.lehrjahr \in DOMAIN eng.apprenticeShiftCounts
       /\ shiftId \in DOMAIN eng.apprenticeShiftCounts[employee.lehrjahr]
    THEN [eng.apprenticeShiftCounts EXCEPT ![employee.lehrjahr][shiftId][employee.id] = @ + 1]
    ELSE eng.apprenticeShiftCounts

\* the record is built with the lock flag set
NewAssignment_Locked(employee, shiftType, dateStr, isFollowUp) ==
    [employeeId |-> employee.id, shiftId |-> shiftType.id,
     date |-> dateStr, locked |-> TRUE, isFollowUp |-> isFollowUp]

\* lines 798-804 and 732-738: the record of a new assignment
NewAssignment(employee, shiftType, dateStr, isFollowUp) ==
    [employeeId |-> employee.id, shiftId |-> shiftType.id,
     date |-> dateStr, locked |-> FALSE, isFollowUp |-> isFollowUp]

createAssignment(eng, employee, shiftType, dateStr, isFollowUp) ==
    LET assignment == NewAssignment(employee, shiftType, dateStr, isFollowUp)
        duration == calculateShiftDuration(shiftType)
    IN  [eng EXCEPT
            !.assignments = Append(@, assignment),
            !.teamWorkloads[employee.teamId] = @ + 1,
            !.employeeWorkloads[employee.id] =
                [@ EXCEPT !.hours = @ + duration,
                          !.shifts = @ + 1,
                          !.daysWorkedThisPeriod = @ \cup {dateStr}],
            !.apprenticeShiftCounts = BumpApprentice(eng, employee, shiftType.id)]

\* the follow-up record is pushed and no counter is updated
pushFollowUp_Uncounted(eng, employee, toShift, followDateStr) ==
    [eng EXCEPT !.assignments = Append(@, NewAssignment(employee, toShift, followDateStr, TRUE))]

\* lines 732-756: the follow-up record and the counter updates
pushFollowUp(eng, employee, toShift, followDateStr) ==
    LET assignment == NewAssignment(employee, toShift, followDateStr, TRUE)
        duration == calculateShiftDuration(toShift)
    IN  [eng EXCEPT
            !.assignments = Append(@, assignment),
            !.teamWorkloads[employee.teamId] = @ + 1,
            !.employeeWorkloads[employee.id] =
                [@ EXCEPT !.hours = @ + duration,
                          !.shifts = @ + 1,
                          !.daysWorkedThisPeriod = @ \cup {followDateStr}],
            !.apprenticeShiftCounts = BumpApprentice(eng, employee, toShift.id)]

\* the skip test without alreadyThisShift
AlreadyPlaced_PrimaryOnly(asg, employee, followDateStr, toShift) ==
    HasPrimaryOn(asg, employee.id, followDateStr)

\* the skip test of lines 707-721
AlreadyPlaced(asg, employee, followDateStr, toShift) ==
    LET alreadyPrimary == HasPrimaryOn(asg, employee.id, followDateStr)
        alreadyThisShift == HasShiftOn(asg, employee.id, followDateStr, toShift.id)
    IN  alreadyPrimary \/ alreadyThisShift

\* the demand of the follow-up shift is not looked at
DemandMet_Never(asg, followDateStr, toShift, demand) == FALSE

\* lines 723-730: currentCount >= demand
DemandMet(asg, followDateStr, toShift, demand) ==
    CountFor(asg, followDateStr, toShift.id) >= demand

RECURSIVE applyFrom(_, _, _, _, _, _)
\* the loop of applyMandatoryFollowUps from rule index r on
applyFrom(opts, eng, employee, date, shiftType, r) ==
    IF r > Len(opts.shiftRules) THEN eng
    ELSE
    LET rule == opts.shiftRules[r]
        toShift == shiftMap(opts, rule.toShiftId)
        followDate == FollowDate(rule, date)
        weekday == getWeekdayName(followDate)
        demand == IF weekday # NoDay THEN NeedOf(toShift, weekday) ELSE 0
        skip == applyFrom(opts, eng, employee, date, shiftType, r + 1)
    IN  IF rule.type # "mandatory_follow_up" \/ rule.fromShiftId # shiftType.id THEN skip
        ELSE IF ~KnownShift(opts, rule.toShiftId) THEN skip
        ELSE IF FirstYearException(opts, employee, rule, toShift) THEN skip
        ELSE IF toShift.id \notin employee.allowedShifts
        THEN Bind([eng EXCEPT !.conflicts =
                      Append(@, ConflictNotAllowed(toShift, employee, followDate))],
                  LAMBDA pushed : applyFrom(opts, pushed, employee, date, shiftType, r + 1))
        ELSE IF ~isEmployeeAvailable(opts, employee, followDate, toShift)
        THEN Bind([eng EXCEPT !.conflicts =
                      Append(@, ConflictNotAvailable(toShift, employee, followDate))],
                  LAMBDA pushed : applyFrom(opts, pushed, employee, date, shiftType, r + 1))
        ELSE IF AlreadyPlaced(eng.assignments, employee, followDate, toShift) THEN skip
        ELSE IF DemandMet(eng.assignments, followDate, toShift, demand) THEN skip
        ELSE Bind(pushFollowUp(eng, employee, toShift, followDate),
                  LAMBDA placed : applyFrom(opts, placed, employee, date, shiftType, r + 1))

\* the first follow-up that is pushed triggers the rules of its own shift type
applyMandatoryFollowUps_Chained(opts, eng, employee, date, shiftType) ==
    Bind(applyFrom(opts, eng, employee, date, shiftType, 1), LAMBDA first :
         IF Len(first.assignments) > Len(eng.assignments)
         THEN applyFrom(opts, first, employee,
                        first.assignments[Len(eng.assignments) + 1].date,
                        shiftMap(opts, first.assignments[Len(eng.assignments) + 1].shiftId),
                        1)
         ELSE first)

applyMandatoryFollowUps(opts, eng, employee, date, shiftType) ==
    applyFrom(opts, eng, employee, date, shiftType, 1)

\* ---------------------------------------------------------------------------
\* Candidate selection
\* ---------------------------------------------------------------------------
\* teamTargets[teamId] > 0 (an unknown team has no target)
HasTarget(targets, teamId) == teamId \in DOMAIN targets /\ targets[teamId] > 0

\* ratioA < ratioB, with ratio = teamWorkloads / teamTargets or +Infinity
RatioLess(eng, targets, a, b) ==
    IF ~HasTarget(targets, a.teamId) THEN FALSE
    ELSE IF ~HasTarget(targets, b.teamId) THEN TRUE
    ELSE eng.teamWorkloads[a.teamId] * targets[b.teamId]
             < eng.teamWorkloads[b.teamId] * targets[a.teamId]

\* shiftSuitability?.[shiftId] ?? 0
Suitability(emp, shiftId) ==
    IF shiftId \in DOMAIN emp.shiftSuitability THEN emp.shiftSuitability[shiftId] ELSE 0

\* the comparator never orders two employees
CompareLess_Never(eng, targets, shiftType, a, b) == FALSE

\* the comparator of selectCandidate returns a negative number
CompareLess(eng, targets, shiftType, a, b) ==
    IF RatioLess(eng, targets, a, b) THEN TRUE
    ELSE IF RatioLess(eng, targets, b, a) THEN FALSE
    ELSE IF eng.employeeWorkloads[a.id].hours # eng.employeeWorkloads[b.id].hours
    THEN eng.employeeWorkloads[a.id].hours < eng.employeeWorkloads[b.id].hours
    ELSE Suitability(b, shiftType.id) < Suitability(a, shiftType.id)

\* employees.slice().sort(comparator): a stable sort
SortedEmployees(opts, eng, targets, shiftType) ==
    LET emps == opts.employees
        Before(i, j) ==
            \/ CompareLess(eng, targets, shiftType, emps[i], emps[j])
            \/ (~CompareLess(eng, targets, shiftType, emps[j], emps[i]) /\ i < j)
        Rank(i) == Cardinality({j \in DOMAIN emps : j # i /\ Before(j, i)}) + 1
    IN  [k \in DOMAIN emps |-> emps[CHOOSE i \in DOMAIN emps : Rank(i) = k]]

\* Math.min(...Object.values(counts))
MinCount(counts) ==
    CHOOSE m \in {counts[e] : e \in DOMAIN counts} :
        \A e \in DOMAIN counts : m <= counts[e]

\* emp goes to the preferred list of selectCandidate
IsPreferred(opts, eng, shiftType, emp) ==
    IF IsApprentice(emp) /\ Cardinality(apprenticesByYear(opts, emp.lehrjahr)) > 1
    THEN IF shiftType.id \in DOMAIN eng.apprenticeShiftCounts[emp.lehrjahr]
         THEN LET counts == eng.apprenticeShiftCounts[emp.lehrjahr][shiftType.id]
              IN  counts[emp.id] = MinCount(counts)
         ELSE TRUE
    ELSE TRUE

Candidates(opts, eng, targets, shiftType) ==
    Bind(SortedEmployees(opts, eng, targets, shiftType), LAMBDA sorted :
         SelectSeq(sorted, LAMBDA e : IsPreferred(opts, eng, shiftType, e))
         \o SelectSeq(sorted, LAMBDA e : ~IsPreferred(opts, eng, shiftType, e)))

RECURSIVE firstPasser(_, _, _, _, _, _)
\* the canAssign loop over a list of employees from index i on: the id of the
\* first passer (or null) and the conflicts pushed by the checks made
firstPasser(opts, asg, list, i, date, shiftType) ==
    IF i > Len(list) THEN [employeeId |-> NoEmployee, index |-> 0, pushed |-> <<>>]
    ELSE Bind(canAssign(opts, asg, list[i], date, shiftType, date), LAMBDA c :
             IF c.ok THEN [employeeId |-> list[i].id, index |-> i, pushed |-> c.pushed]
             ELSE [firstPasser(opts, asg, list, i + 1, date, shiftType)
                      EXCEPT !.pushed = c.pushed \o @])

selectCandidate(opts, eng, targets, date, shiftType) ==
    Bind(Candidates(opts, eng, targets, shiftType), LAMBDA candidates :
         firstPasser(opts, eng.assignments, candidates, 1, date, shiftType))

\* the loop body without the availability test
AnyEligible_NoAvailability(opts, asg, emp, date, shiftType, dateStr) ==
    /\ shiftType.id \in emp.allowedShifts
    /\ ~HasPrimaryOn(asg, emp.id, dateStr)

\* the test of the loop body of selectAnyCandidate
AnyEligible(opts, asg, emp, date, shiftType, dateStr) ==
    /\ shiftType.id \in emp.allowedShifts
    /\ isEmployeeAvailable(opts, emp, date, shiftType)
    /\ ~HasPrimaryOn(asg, emp.id, dateStr)

\* there is no fallback
selectAnyCandidate_None(opts, asg, date, shiftType) == NoEmployee

selectAnyCandidate(opts, asg, date, shiftType) ==
    LET idx == SelectIdx(opts.employees,
                         LAMBDA e : AnyEligible(opts, asg, e, date, shiftType, date), 1)
    IN  IF idx = <<>> THEN NoEmployee ELSE opts.employees[idx[1]].id

\* ---------------------------------------------------------------------------
\* One pass of the slot loop body of schedule() up to the choice of the employee
\* ---------------------------------------------------------------------------
ConflictZeroPair(dateStr) ==
    [kind |-> "0. kann nicht von derselben Person wie 1. VM", shift |-> "0.",
     employee |-> NoEmployee, date |-> dateStr]

ConflictVmPair(dateStr) ==
    [kind |-> "1. VM kann nicht von derselben Person wie 0.", shift |-> "1. VM",
     employee |-> NoEmployee, date |-> dateStr]

ConflictNoPerson(shiftType, dateStr) ==
    [kind |-> "Keine verfuegbare Person", shift |-> shiftType.name,
     employee |-> NoEmployee, date |-> dateStr]

\* list.splice(i, 1)
Splice(list, i) == [k \in 1..(Len(list) - 1) |-> IF k < i THEN list[k] ELSE list[k + 1]]

\* lines 961-982: the "0." slot looks for the holder of "1. VM" of the same date
pairZero(opts, asg, vm, day, shiftType) ==
    IF KnownShift(opts, zeroShiftId(opts)) /\ shiftType.id = zeroShiftId(opts)
       /\ day \in DOMAIN vm
    THEN Bind([i \in DOMAIN vm[day] |-> FindEmployee(opts, vm[day][i])], LAMBDA emps :
         Bind(firstPasser(opts, asg, emps, 1, day, shiftType), LAMBDA fp :
             LET list == vm[day]
                 matched == fp.employeeId # NoEmployee
             IN  [employeeId |-> fp.employeeId,
                  vm |-> IF matched THEN [vm EXCEPT ![day] = Splice(list, fp.index)] ELSE vm,
                  pushed |-> IF ~matched /\ Len(list) > 0
                             THEN fp.pushed \o <<ConflictZeroPair(day)>> ELSE fp.pushed]))
    ELSE [employeeId |-> NoEmployee, vm |-> vm, pushed |-> <<>>]

\* lines 984-1008: the "1. VM" slot looks for the holder of "0." of the same date
pairVm(opts, asg, day, shiftType) ==
    IF KnownShift(opts, firstVmShiftId(opts)) /\ KnownShift(opts, zeroShiftId(opts))
       /\ shiftType.id = firstVmShiftId(opts)
    THEN LET idx == SelectIdx(asg, LAMBDA a : a.date = day /\ a.shiftId = zeroShiftId(opts)
                                              /\ ~a.isFollowUp, 1)
         IN  IF idx # <<>> /\ KnownEmployee(opts, asg[idx[1]].employeeId)
             THEN Bind(FindEmployee(opts, asg[idx[1]].employeeId), LAMBDA emp :
                  Bind(canAssign(opts, asg, emp, day, shiftType, day), LAMBDA c :
                      IF c.ok THEN [employeeId |-> emp.id, pushed |-> c.pushed]
                      ELSE [employeeId |-> NoEmployee,
                            pushed |-> c.pushed \o <<ConflictVmPair(day)>>]))
             ELSE [employeeId |-> NoEmployee, pushed |-> <<>>]
    ELSE [employeeId |-> NoEmployee, pushed |-> <<>>]

\* lines 959-1015: the employee chosen for the slot, the branch that chose him,
\* the conflicts pushed on the way and the pairing lists afterwards
chooseEmployee(opts, eng, targets, vm, day, shiftType) ==
    Bind(pairZero(opts, eng.assignments, vm, day, shiftType), LAMBDA pz :
    IF pz.employeeId # NoEmployee
    THEN [employeeId |-> pz.employeeId, by |-> "pairZero", vm |-> pz.vm,
          pushed |-> pz.pushed]
    ELSE
    Bind(pairVm(opts, eng.assignments, day, shiftType), LAMBDA pv :
    IF pv.employeeId # NoEmployee
    THEN [employeeId |-> pv.employeeId, by |-> "pairVm", vm |-> pz.vm,
          pushed |-> pz.pushed \o pv.pushed]
    ELSE
    Bind(selectCandidate(opts, eng, targets, day, shiftType), LAMBDA sc :
    IF sc.employeeId # NoEmployee
    THEN [employeeId |-> sc.employeeId, by |-> "ranked", vm |-> pz.vm,
          pushed |-> pz.pushed \o pv.pushed \o sc.pushed]
    ELSE
    Bind(selectAnyCandidate(opts, eng.assignments, day, shiftType), LAMBDA any :
    [employeeId |-> any,
     by |-> IF any # NoEmployee THEN "fallback" ELSE "none",
     vm |-> pz.vm,
     pushed |-> pz.pushed \o pv.pushed \o sc.pushed]))))

\* lines 1016-1025: commit of the chosen employee and follow-up propagation
commitSlot(opts, eng, employee, day, shiftType) ==
    Bind(createAssignment(eng, employee, shiftType, day, FALSE), LAMBDA created :
         applyMandatoryFollowUps(opts, created, employee, day, shiftType))

\* lines 1018-1023: record the holder of "1. VM" for the pairing
recordVm(opts, vm, employee, day, shiftType) ==
    IF KnownShift(opts, firstVmShiftId(opts)) /\ shiftType.id = firstVmShiftId(opts)
    THEN IF day \in DOMAIN vm THEN [vm EXCEPT ![day] = Append(@, employee.id)]
         ELSE (day :> <<employee.id>>) @@ vm
    ELSE vm

\* ---------------------------------------------------------------------------
\* Priority groups and the order of the loops of one week
\* ---------------------------------------------------------------------------
\* first character of name.trim(), for the names of the shift catalogue
NamePrefix(name) ==
    CASE name \in {"0."} -> "0"
      [] name \in {"1. VM", "1. NM"} -> "1"
      [] name \in {"2A. VM", "2B. NM", "2B. VM", "2A. NM"} -> "2"
      [] name \in {"3N"} -> "3"
      [] name \in {"4N"} -> "4"
      [] OTHER -> "other"

\* String.localeCompare on the names of the shift catalogue
NameCollation == <<"0.", "1. NM", "1. VM", "2A. NM", "2A. VM", "2B. NM", "2B. VM",
                   "3N", "4N", "A", "B", "C", "Early", "Late">>

NameIndex(name) == CHOOSE i \in DOMAIN NameCollation : NameCollation[i] = name

\* the comparator of group0And1.sort returns a negative number
Group01Less(a, b) ==
    IF a.name = "1. VM" THEN TRUE
    ELSE IF b.name = "1. VM" THEN FALSE
    ELSE IF a.name = "0." THEN FALSE
    ELSE IF b.name = "0." THEN TRUE
    ELSE NameIndex(a.name) < NameIndex(b.name)

\* the group keeps the input order
SortGroup01_Unsorted(g) == g

SortGroup01(g) ==
    LET Before(i, j) == Group01Less(g[i], g[j]) \/ (~Group01Less(g[j], g[i]) /\ i < j)
        Rank(i) == Cardinality({j \in DOMAIN g : j # i /\ Before(j, i)}) + 1
    IN  [k \in DOMAIN g |-> g[CHOOSE i \in DOMAIN g : Rank(i) = k]]

getPriorityGroups(opts) ==
    LET sts == opts.shiftTypes
        group3And4 == SelectSeq(sts, LAMBDA st : NamePrefix(st.name) \in {"3", "4"})
        group2 == SelectSeq(sts, LAMBDA st : NamePrefix(st.name) = "2")
        group0And1 == SelectSeq(sts, LAMBDA st : NamePrefix(st.name) \in {"0", "1"})
        others == SelectSeq(sts, LAMBDA st : NamePrefix(st.name) = "other")
    IN  <<group3And4, group2, SortGroup01(group0And1), others>>

\* lines 937-945: the scheduling days of the week that starts at ws
WeekDays(opts, ws) ==
    SelectSeq([i \in 1..7 |-> ws + i - 1],
              LAMBDA d : d <= opts.endDate /\ getWeekdayName(d) # NoDay)

\* for (day of weekDays) for (shiftType of group): the (day, shiftType) pairs in order
GroupPlan(days, group) ==
    [k \in 1..(Len(days) * Len(group)) |->
        [day |-> days[((k - 1) \div Len(group)) + 1],
         shiftType |-> group[((k - 1) % Len(group)) + 1]]]

\* lines 947-953: the (day, shiftType) pairs of a week in the order of the loops
WeekPlan(opts, ws) ==
    LET groups == getPriorityGroups(opts)
        days == WeekDays(opts, ws)
    IN  GroupPlan(days, groups[1]) \o GroupPlan(days, groups[2])
        \o GroupPlan(days, groups[3]) \o GroupPlan(days, groups[4])

\* ---------------------------------------------------------------------------
\* Construction
\* ---------------------------------------------------------------------------
TeamIds(opts) == {opts.teams[i].id : i \in DOMAIN opts.teams}

RECURSIVE totalSlotsFrom(_, _)
\* the while loop of initializeTeamTargets from date current on
totalSlotsFrom(opts, current) ==
    IF current > opts.endDate THEN 0
    ELSE LET weekday == getWeekdayName(current)
             RECURSIVE sumNeeds(_)
             sumNeeds(i) == IF i > Len(opts.shiftTypes) THEN 0
                            ELSE NeedOf(opts.shiftTypes[i], weekday) + sumNeeds(i + 1)
         IN  (IF weekday # NoDay THEN sumNeeds(1) ELSE 0) + totalSlotsFrom(opts, current + 1)

\* the quotient is cut off
RoundHundredth_Floor(n) == n \div 100

\* Math.round of a non-negative quotient n / 100
RoundHundredth(n) == (n + 50) \div 100

initializeTeamTargets(opts) ==
    LET totalSlots == totalSlotsFrom(opts, opts.startDate)
        team(id) == CHOOSE t \in Range(opts.teams) : t.id = id
    IN  [id \in TeamIds(opts) |-> RoundHundredth(team(id).overallShiftPercentage * totalSlots)]

initializeApprentices(opts) ==
    [indices |-> [y \in ApprenticeYears(opts) |-> 0],
     counts |-> [y \in ApprenticeYears(opts) |->
                   [sid \in ShiftIds(opts) |->
                      [eid \in {e.id : e \in apprenticesByYear(opts, y)} |-> 0]]]]

\* the first loop of initializeWorkloads
EmptyWorkloads(opts) ==
    [eid \in {opts.employees[i].id : i \in DOMAIN opts.employees} |->
        LET employee == FindEmployee(opts, eid)
            known == employee.teamId \in TeamIds(opts)
            team == CHOOSE t \in Range(opts.teams) : t.id = employee.teamId
        IN  [hours |-> 0, shifts |-> 0,
             targetPercentage |->
                 IF employee.specificShiftPercentage >= 0
                 THEN employee.specificShiftPercentage
                 ELSE IF known THEN team.overallShiftPercentage ELSE 100,
             daysWorkedThisPeriod |-> {}]]

RECURSIVE seedWorkloads(_, _, _)
\* the existing assignments are not counted
seedWorkloads_None(opts, eng, i) == eng

\* the second loop of initializeWorkloads from index i of this.assignments on
seedWorkloads(opts, eng, i) ==
    IF i > Len(eng.assignments) THEN eng
    ELSE LET assignment == eng.assignments[i]
         IN  IF KnownEmployee(opts, assignment.employeeId)
                /\ KnownShift(opts, assignment.shiftId)
             THEN LET emp == FindEmployee(opts, assignment.employeeId)
                      duration == calculateShiftDuration(shiftMap(opts, assignment.shiftId))
                      counted ==
                        [eng EXCEPT
                           !.teamWorkloads[emp.teamId] = @ + 1,
                           !.employeeWorkloads[emp.id] =
                               [@ EXCEPT !.hours = @ + duration,
                                         !.shifts = @ + 1,
                                         !.daysWorkedThisPeriod = @ \cup {assignment.date}],
                           !.apprenticeShiftCounts =
                               BumpApprentice(eng, emp, assignment.shiftId)]
                  IN  seedWorkloads(opts, counted, i + 1)
             ELSE seedWorkloads(opts, eng, i + 1)

\* new ShiftScheduler(options): the mutable fields after the constructor
Construct(opts) ==
    LET app == initializeApprentices(opts)
        allTeams == TeamIds(opts) \cup {opts.employees[i].teamId : i \in DOMAIN opts.employees}
        fresh == [assignments |-> opts.existingAssignments,
                  conflicts |-> <<>>,
                  employeeWorkloads |-> EmptyWorkloads(opts),
                  teamWorkloads |-> [t \in allTeams |-> 0],
                  apprenticeShiftCounts |-> app.counts]
    IN  seedWorkloads(opts, fresh, 1)

\* the record of the engine's mutable fields in the current state
Engine ==
    [assignments |-> assignments, conflicts |-> conflicts,
     employeeWorkloads |-> employeeWorkloads, teamWorkloads |-> teamWorkloads,
     apprenticeShiftCounts |-> apprenticeShiftCounts]

\* the list is returned as it is
Dedupe_Keep(list) == list

\* Array.from(new Set(list)): first occurrences, in order
Dedupe(list) ==
    LET first == {i \in DOMAIN list : \A j \in 1..(i - 1) : list[j] # list[i]}
    IN  [k \in 1..Cardinality(first) |->
            list[CHOOSE i \in first : Cardinality({j \in first : j <= i}) = k]]

NoResult ==
    [returned |-> FALSE, assignments |-> <<>>, conflicts |-> <<>>,
     statistics |-> [totalAssignments |-> 0, unassignedShifts |-> 0]]

\* lines 1040-1049
ScheduleResult(eng) ==
    [returned |-> TRUE,
     assignments |-> eng.assignments,
     conflicts |-> Dedupe(eng.conflicts),
     statistics |-> [totalAssignments |-> Len(eng.assignments),
                     unassignedShifts |-> Len(Dedupe(eng.conflicts)),
                     employeeWorkloads |-> eng.employeeWorkloads,
                     teamWorkloads |-> eng.teamWorkloads]]

NoProbe == [fn |-> "none", employeeId |-> NoEmployee, date |-> 0, shiftId |-> NoShift,
            returned |-> FALSE]

NoCall == [employeeId |-> NoEmployee, date |-> 0, shiftId |-> NoShift, times |-> 0, calls |-> 0]

\* ---------------------------------------------------------------------------
\* Inputs: the option records the runs are started with
\* ---------------------------------------------------------------------------
Time(h, m) == [h |-> h, m |-> m]

Weekdays == {"monday", "tuesday", "wednesday", "thursday", "friday"}

AllSlots == Weekdays \X {"AM", "PM"}

\* a shift type of the catalogue with demand n on the weekdays days
ShiftOf(id, n, days) ==
    LET needs == [d \in days |-> n]
    IN  CASE id = "a" -> [id |-> "a", name |-> "A", startTime |-> Time(7, 0),
                          endTime |-> Time(11, 0), weeklyNeeds |-> needs]
          [] id = "b" -> [id |-> "b", name |-> "B", startTime |-> Time(13, 0),
                          endTime |-> Time(17, 0), weeklyNeeds |-> needs]
          [] id = "zero" -> [id |-> "zero", name |-> "0.", startTime |-> Time(6, 0),
                             endTime |-> Time(7, 0), weeklyNeeds |-> needs]
          [] id = "vm1" -> [id |-> "vm1", name |-> "1. VM", startTime |-> Time(7, 0),
                            endTime |-> Time(11, 30), weeklyNeeds |-> needs]
          [] id = "vm2a" -> [id |-> "vm2a", name |-> "2A. VM", startTime |-> Time(8, 0),
                             endTime |-> Time(11, 30), weeklyNeeds |-> needs]
          [] id = "nm2b" -> [id |-> "nm2b", name |-> "2B. NM", startTime |-> Time(13, 0),
                             endTime |-> Time(17, 0), weeklyNeeds |-> needs]
          [] id = "n3" -> [id |-> "n3", name |-> "3N", startTime |-> Time(22, 0),
                           endTime |-> Time(6, 0), weeklyNeeds |-> needs]
          [] id = "early" -> [id |-> "early", name |-> "Early", startTime |-> Time(6, 0),
                              endTime |-> Time(14, 0), weeklyNeeds |-> needs]
          [] id = "c" -> [id |-> "c", name |-> "C", startTime |-> Time(8, 0),
                          endTime |-> Time(12, 0), weeklyNeeds |-> needs]
          [] id = "late" -> [id |-> "late", name |-> "Late", startTime |-> Time(22, 0),
                             endTime |-> Time(0, 30), weeklyNeeds |-> needs]

Forbidden(from, to, sameDay) ==
    [type |-> "forbidden_sequence", fromShiftId |-> from, toShiftId |-> NoShift,
     toShiftIds |-> {to}, sameDay |-> sameDay]

Mandatory(from, to, sameDay) ==
    [type |-> "mandatory_follow_up", fromShiftId |-> from, toShiftId |-> to,
     toShiftIds |-> {}, sameDay |-> sameDay]

\* the rule lists over a first shift x and a second shift y
RuleLists(x, y) ==
    { <<>>,
      <<Forbidden(x, y, TRUE)>>,
      <<Forbidden(x, y, FALSE)>>,
      <<Mandatory(x, y, TRUE)>>,
      <<Mandatory(x, y, FALSE)>>,
      <<Mandatory(x, y, FALSE), Mandatory(y, x, FALSE)>>,
      <<Mandatory(x, y, FALSE), Forbidden(x, y, FALSE)>> }

\* what varies between the employees of the inputs
Profiles(x, y) ==
    { [allowed |-> {x, y}, availability |-> AllSlots, absent |-> FALSE, lehrjahr |-> 0],
      [allowed |-> {x}, availability |-> AllSlots, absent |-> FALSE, lehrjahr |-> 0],
      [allowed |-> {x, y},
       availability |-> AllSlots \ {<<"tuesday", "AM">>, <<"tuesday", "PM">>},
       absent |-> FALSE, lehrjahr |-> 0],
      [allowed |-> {x, y}, availability |-> AllSlots, absent |-> TRUE, lehrjahr |-> 0] }

ApprenticeProfiles(x, y) ==
    { [allowed |-> {x, y}, availability |-> AllSlots, absent |-> FALSE, lehrjahr |-> 0],
      [allowed |-> {x, y}, availability |-> AllSlots, absent |-> FALSE, lehrjahr |-> 1],
      [allowed |-> {x, y}, availability |-> AllSlots, absent |-> FALSE, lehrjahr |-> 2] }

EmployeeOf(id, teamId, p) ==
    [id |-> id,
     employeeType |-> IF p.lehrjahr = 0 THEN "ausgelernt" ELSE "azubi",
     lehrjahr |-> p.lehrjahr,
     teamId |-> teamId,
     specificShiftPercentage |-> -1,
     allowedShifts |-> p.allowed,
     shiftSuitability |-> <<>>,
     availability |-> p.availability]

\* an absence on the first Monday for the employees whose profile says so
AbsencesOf(p1, p2) ==
    (IF p1.absent THEN <<[employeeId |-> "e1", startDate |-> 0, endDate |-> 0]>> ELSE <<>>)
    \o (IF p2.absent THEN <<[employeeId |-> "e2", startDate |-> 0, endDate |-> 0]>> ELSE <<>>)

Teams ==
    <<[id |-> "t1", overallShiftPercentage |-> 50],
      [id |-> "t2", overallShiftPercentage |-> 50]>>

OptionsOf(firstShift, secondShift, rules, p1, p2, existing, endDate) ==
    [startDate |-> 0,
     endDate |-> endDate,
     employees |-> <<EmployeeOf("e1", "t1", p1), EmployeeOf("e2", "t2", p2)>>,
     teams |-> Teams,
     shiftTypes |-> <<firstShift, secondShift>>,
     shiftRules |-> rules,
     absences |-> AbsencesOf(p1, p2),
     existingAssignments |-> existing]

ExistingLists(x) ==
    { <<>>,
      <<[employeeId |-> "e1", shiftId |-> x, date |-> 0, locked |-> TRUE,
         isFollowUp |-> FALSE]>> }

NeedPairs == {<<1, 1>>, <<MaxNeed, 1>>, <<1, MaxNeed>>}

\* two free shifts, every rule list, Monday and Tuesday
RuleConfigs ==
    { OptionsOf(ShiftOf(ids[1], n[1], d1), ShiftOf(ids[2], n[2], {"monday", "tuesday"}),
                rules, p1, p2, existing, 1) :
        ids \in {<<"a", "b">>, <<"b", "a">>},
        n \in NeedPairs,
        d1 \in {{"monday"}, {"monday", "tuesday"}},
        rules \in RuleLists("a", "b"),
        p1 \in Profiles("a", "b"), p2 \in Profiles("a", "b"),
        existing \in ExistingLists("a") }

\* the paired shifts "0." and "1. VM"
PairConfigs ==
    { OptionsOf(ShiftOf(ids[1], n, {"monday", "tuesday"}),
                ShiftOf(ids[2], n, {"monday", "tuesday"}),
                rules, p1, p2, <<>>, 1) :
        ids \in {<<"vm1", "zero">>, <<"zero", "vm1">>},
        n \in 1..MaxNeed,
        rules \in {<<>>, <<Forbidden("vm1", "zero", FALSE)>>},
        p1 \in Profiles("vm1", "zero"), p2 \in Profiles("vm1", "zero") }

\* apprentices, the first-year exception, an overnight shift, more than one week
WeekConfigsOf(x, y) ==
    { OptionsOf(ShiftOf(x, 1, {"monday", "friday", "saturday"}), ShiftOf(y, 1, {"monday"}),
                rules, p1, p2, <<>>, endDate) :
        rules \in {<<>>, <<Mandatory(x, y, TRUE)>>,
                   <<Mandatory(x, y, FALSE), Mandatory(y, x, FALSE)>>},
        p1 \in ApprenticeProfiles(x, y),
        p2 \in ApprenticeProfiles(x, y),
        endDate \in {4, MaxEndDate} }

WeekConfigs == WeekConfigsOf("vm2a", "nm2b") \cup WeekConfigsOf("a", "n3")

\* an employee given field by field
EmployeeWith(id, teamId, lehrjahr, allowed, availability, suitability) ==
    [id |-> id,
     employeeType |-> IF lehrjahr = 0 THEN "ausgelernt" ELSE "azubi",
     lehrjahr |-> lehrjahr,
     teamId |-> teamId,
     specificShiftPercentage |-> -1,
     allowedShifts |-> allowed,
     shiftSuitability |-> suitability,
     availability |-> availability]

\* options given field by field
OptionsWith(employees, teams, shiftTypes, rules, absences, existing, startDate, endDate) ==
    [startDate |-> startDate,
     endDate |-> endDate,
     employees |-> employees,
     teams |-> teams,
     shiftTypes |-> shiftTypes,
     shiftRules |-> rules,
     absences |-> absences,
     existingAssignments |-> existing]

Existing(employeeId, shiftId, date, isFollowUp) ==
    [employeeId |-> employeeId, shiftId |-> shiftId, date |-> date, locked |-> FALSE,
     isFollowUp |-> isFollowUp]

\* one shift type "Early" with a demand of 1 on Monday, one employee, Monday to Friday
ScenarioConfigs ==
    { OptionsWith(<<EmployeeWith("e1", "t1", 0, {"early"}, availability, <<>>)>>,
                  <<[id |-> "t1", overallShiftPercentage |-> 100]>>,
                  <<ShiftOf("early", 1, {"monday"})>>, <<>>, <<>>, <<>>, 0, 4) :
        availability \in { {<<"monday", "AM">>},
                           {<<"monday", "PM">>},
                           {<<"monday", "AM">>, <<"monday", "PM">>},
                           AllSlots } }

\* suitability scores of the third, second and first employee
SuitabilityLists ==
    { << <<>>, <<>>, <<>> >>,
      << <<>>, ("a" :> 2), ("a" :> 1) @@ ("b" :> 3) >>,
      << ("b" :> 1), <<>>, ("a" :> 5) >> }

\* three employees without cohorts of two, teams with and without a target,
\* suitability scores
RankConfigs ==
    { OptionsWith(<<EmployeeWith("e1", "t1", 0, {"a", "b"}, av, suit[1]),
                    EmployeeWith("e2", "t2", 1, {"a", "b"}, AllSlots, suit[2]),
                    EmployeeWith("e3", team3, 0, {"a", "b"}, AllSlots, suit[3])>>,
                  <<[id |-> "t1", overallShiftPercentage |-> 100 - share2],
                    [id |-> "t2", overallShiftPercentage |-> share2]>>,
                  <<ShiftOf("a", n[1], {"monday", "tuesday"}),
                    ShiftOf("b", n[2], {"monday", "tuesday"})>>,
                  rules, <<>>, <<>>, 0, 1) :
        av \in {AllSlots, AllSlots \ {<<"monday", "AM">>}},
        suit \in SuitabilityLists,
        team3 \in {"t1", "t3"},
        share2 \in {50, 0},
        n \in NeedPairs,
        rules \in {<<>>, <<Mandatory("a", "b", FALSE)>>} }

\* shift types of all priority groups in several input orders
ShiftOrders ==
    { <<"a", "zero", "vm2a", "n3", "vm1">>,
      <<"zero", "vm1", "b", "nm2b", "n3">>,
      <<"vm1", "a", "zero", "n3", "vm2a">>,
      <<"b", "vm2a", "zero", "a", "vm1">> }

PriorityConfigs ==
    { OptionsWith(<<EmployeeWith("e1", "t1", 0, Range(ids), av, <<>>),
                    EmployeeWith("e2", "t2", 0, Range(ids), AllSlots, <<>>),
                    EmployeeWith("e3", "t1", 0, Range(ids), AllSlots, <<>>)>>,
                  Teams,
                  [k \in DOMAIN ids |-> ShiftOf(ids[k], 1, days)],
                  <<>>, <<>>, <<>>, 0, endDate) :
        ids \in ShiftOrders,
        av \in {AllSlots, AllSlots \ {<<"tuesday", "AM">>, <<"tuesday", "PM">>}},
        days \in {{"monday"}, {"monday", "tuesday"}},
        endDate \in {1, MaxEndDate} }

\* the plan of the week before the run: usage counts and hours of the apprentices
CohortSeeds ==
    { <<>>,
      <<Existing("e2", "a", 0, FALSE), Existing("e2", "a", 1, FALSE),
        Existing("e3", "a", 0, FALSE), Existing("e3", "b", 1, FALSE),
        Existing("e3", "b", 2, FALSE)>>,
      <<Existing("e1", "a", 0, FALSE), Existing("e2", "b", 1, FALSE)>>,
      <<Existing("e1", "gone", 0, FALSE), Existing("e9", "a", 1, FALSE),
        Existing("e2", "b", 1, TRUE)>> }

\* apprentice cohorts of two and of three members
CohortConfigs ==
    { OptionsWith(<<EmployeeWith("e1", "t1", years[1], {"a", "b"}, av, <<>>),
                    EmployeeWith("e2", "t1", years[2], {"a", "b"}, AllSlots, <<>>),
                    EmployeeWith("e3", "t1", years[3], {"a", "b"}, AllSlots, <<>>)>>,
                  Teams,
                  <<ShiftOf("a", n, {"monday", "tuesday"}), ShiftOf("b", 1, {"monday"})>>,
                  rules, <<>>, existing, 7, 8) :
        years \in {<<1, 1, 1>>, <<2, 2, 0>>, <<1, 1, 2>>},
        av \in {AllSlots, AllSlots \ {<<"monday", "AM">>, <<"monday", "PM">>}},
        n \in 1..MaxNeed,
        rules \in {<<>>, <<Forbidden("a", "b", FALSE)>>},
        existing \in CohortSeeds }

\* rules that name shift types that are not in the input
DanglingRuleLists ==
    { <<Mandatory("a", "gone", FALSE), Forbidden("gone", "lost", FALSE)>>,
      <<Mandatory("a", "gone", TRUE), Mandatory("a", "b", FALSE),
        Forbidden("gone", "gone", TRUE)>>,
      <<Forbidden("lost", "gone", FALSE), Forbidden("a", "b", TRUE),
        Mandatory("b", "lost", FALSE)>> }

DanglingConfigs ==
    { OptionsWith(<<EmployeeWith("e1", "t1", 0, {"a", "b"}, av, <<>>),
                    EmployeeWith("e2", "t2", 0, allowed, AllSlots, <<>>)>>,
                  Teams,
                  <<ShiftOf("a", n[1], {"monday", "tuesday"}),
                    ShiftOf("b", n[2], {"monday", "tuesday"})>>,
                  rules, <<>>, existing, 0, 1) :
        av \in {AllSlots, AllSlots \ {<<"tuesday", "PM">>}},
        allowed \in {{"a", "b"}, {"a"}},
        n \in NeedPairs,
        rules \in DanglingRuleLists,
        existing \in {<<>>, <<Existing("e2", "gone", 0, TRUE)>>} }

\* mandatory follow-up rules that chain or cycle, with demand on the days after
ChainRuleLists ==
    { <<Mandatory("a", "b", FALSE), Mandatory("b", "a", FALSE)>>,
      <<Mandatory("a", "b", FALSE), Mandatory("b", "c", FALSE)>>,
      <<Mandatory("a", "b", TRUE), Mandatory("b", "c", FALSE)>> }

ChainConfigs ==
    { OptionsWith(<<EmployeeWith("e1", "t1", 0, {"a", "b", "c"}, AllSlots, <<>>),
                    EmployeeWith("e2", "t2", 0, allowed, AllSlots, <<>>)>>,
                  Teams,
                  <<ShiftOf("a", n, {"monday", "wednesday"}),
                    ShiftOf("b", 1, bDays),
                    ShiftOf("c", 1, {"wednesday"})>>,
                  rules, <<>>, <<>>, 0, endDate) :
        allowed \in {{"a", "b", "c"}, {"a", "b"}},
        n \in 1..MaxNeed,
        bDays \in {{"tuesday"}, {"monday", "tuesday"}},
        rules \in ChainRuleLists,
        endDate \in {1, 2} }

Configs ==
    RuleConfigs \cup PairConfigs \cup WeekConfigs \cup ScenarioConfigs \cup RankConfigs
    \cup PriorityConfigs \cup CohortConfigs \cup DanglingConfigs \cup ChainConfigs

\* ---------------------------------------------------------------------------
\* generateShiftSchedule: construction, then schedule() step by step
\* ---------------------------------------------------------------------------
InitOf(opts, at) ==
    LET eng == Construct(opts)
    IN  /\ options = opts
        /\ assignments = eng.assignments
        /\ conflicts = eng.conflicts
        /\ employeeWorkloads = eng.employeeWorkloads
        /\ teamWorkloads = eng.teamWorkloads
        /\ teamTargets = initializeTeamTargets(opts)
        /\ vmAssignmentsByDate = <<>>
        /\ apprenticeIndices = initializeApprentices(opts).indices
        /\ apprenticeShiftCounts = eng.apprenticeShiftCounts
        /\ pc = at
        /\ weekStart = opts.startDate
        /\ firstWeek = TRUE
        /\ pos = 0
        /\ assignedCount = 0
        /\ origin = [i \in DOMAIN opts.existingAssignments |-> "existing"]
        /\ result = NoResult
        /\ lastCall = NoCall
        /\ attempted = <<>>
        /\ probe = NoProbe
        /\ currentDate = opts.startDate
        /\ currentWeek = opts.startDate - (opts.startDate % 7)
        /\ previous = NoResult

Init == \E opts \in Configs : InitOf(opts, "week")

\* the indices are left as they are
rotateApprentices_Stay(opts, indices) == indices

\* rotateApprentices
rotateApprentices(opts, indices) ==
    [y \in DOMAIN indices |->
        IF Cardinality(apprenticesByYear(opts, y)) > 1
        THEN (indices[y] + 1) % Cardinality(apprenticesByYear(opts, y))
        ELSE indices[y]]

\* the current (day, shiftType) of the loops
Current == WeekPlan(options, weekStart)[pos]

\* weekStart.setDate(weekStart.getDate() + 7)
NextWeekStart(ws) == ws + 7

\* the loops do not step on
NextPos_Stay(p) == p

\* the step of the for loops over groups, days and shift types
NextPos(p) == p + 1

\* break: the slot loop is left and the for loops step on
AfterBreak(p) == p + 1

\* while (weekStart <= endDate): a week begins
BeginWeek ==
    /\ pc = "week"
    /\ weekStart <= options.endDate
    /\ apprenticeIndices' = IF firstWeek THEN apprenticeIndices
                            ELSE rotateApprentices(options, apprenticeIndices)
    /\ firstWeek' = FALSE
    /\ pos' = 1
    /\ pc' = "shift"
    /\ UNCHANGED <<previous, currentDate, currentWeek,
                   options, assignments, conflicts, employeeWorkloads, teamWorkloads,
                   teamTargets, vmAssignmentsByDate, apprenticeShiftCounts, weekStart,
                   assignedCount, origin, result, lastCall, attempted, probe>>

\* the loops of the week are over
EndWeek ==
    /\ pc = "shift"
    /\ pos > Len(WeekPlan(options, weekStart))
    /\ weekStart' = NextWeekStart(weekStart)
    /\ attempted' = <<>>
    /\ pc' = "week"
    /\ UNCHANGED <<previous, currentDate, currentWeek,
                   options, assignments, conflicts, employeeWorkloads, teamWorkloads,
                   teamTargets, vmAssignmentsByDate, apprenticeIndices,
                   apprenticeShiftCounts, firstWeek, pos, assignedCount, origin, result,
                   lastCall, probe>>

\* the log of attempts with one more entry; an entry is logged once when the loop
\* is entered for it
LogAttempt(log, entry) ==
    IF log # <<>> /\ log[Len(log)] = entry THEN log ELSE Append(log, entry)

\* lines 953-957: need and assignedCount of the next shift type
EnterShift ==
    /\ pc = "shift"
    /\ pos <= Len(WeekPlan(options, weekStart))
    /\ assignedCount' = CountFor(assignments, Current.day, Current.shiftType.id)
    /\ attempted' = LogAttempt(attempted, [day |-> Current.day, name |-> Current.shiftType.name])
    /\ pc' = "slot"
    /\ UNCHANGED <<previous, currentDate, currentWeek,
                   options, assignments, conflicts, employeeWorkloads, teamWorkloads,
                   teamTargets, vmAssignmentsByDate, apprenticeIndices,
                   apprenticeShiftCounts, weekStart, firstWeek, pos, origin, result,
                   lastCall, probe>>

Need == NeedOf(Current.shiftType, getWeekdayName(Current.day))

\* while (assignedCount < need) is false
LeaveShift ==
    /\ pc = "slot"
    /\ ~(assignedCount < Need)
    /\ pos' = NextPos(pos)
    /\ pc' = "shift"
    /\ UNCHANGED <<previous, currentDate, currentWeek,
                   options, assignments, conflicts, employeeWorkloads, teamWorkloads,
                   teamTargets, vmAssignmentsByDate, apprenticeIndices,
                   apprenticeShiftCounts, weekStart, firstWeek, assignedCount, origin,
                   result, lastCall, attempted, probe>>

\* one pass of the slot loop that finds an employee
FillSlot ==
    /\ pc = "slot"
    /\ \E cur \in {Current} :
          /\ assignedCount < NeedOf(cur.shiftType, getWeekdayName(cur.day))
          /\ \E choice \in {chooseEmployee(options, Engine, teamTargets,
                                           vmAssignmentsByDate, cur.day, cur.shiftType)} :
                /\ choice.employeeId # NoEmployee
                /\ \E employee \in {FindEmployee(options, choice.employeeId)} :
                   \E after \in {commitSlot(options,
                                            [Engine EXCEPT !.conflicts = @ \o choice.pushed],
                                            employee, cur.day, cur.shiftType)} :
                      /\ assignments' = after.assignments
                      /\ conflicts' = after.conflicts
                      /\ employeeWorkloads' = after.employeeWorkloads
                      /\ teamWorkloads' = after.teamWorkloads
                      /\ apprenticeShiftCounts' = after.apprenticeShiftCounts
                      /\ vmAssignmentsByDate' =
                             recordVm(options, choice.vm, employee, cur.day, cur.shiftType)
                      /\ origin' = origin \o <<choice.by>>
                                   \o [i \in 1..(Len(after.assignments)
                                                 - Len(assignments) - 1) |-> "followUp"]
    /\ assignedCount' = assignedCount + 1
    /\ UNCHANGED <<previous, currentDate, currentWeek,
                   options, teamTargets, apprenticeIndices, weekStart, firstWeek, pos, pc,
                   result, lastCall, attempted, probe>>

\* one pass of the slot loop that finds nobody: conflict and break
SlotConflict ==
    /\ pc = "slot"
    /\ \E cur \in {Current} :
          /\ assignedCount < NeedOf(cur.shiftType, getWeekdayName(cur.day))
          /\ \E choice \in {chooseEmployee(options, Engine, teamTargets,
                                           vmAssignmentsByDate, cur.day, cur.shiftType)} :
                /\ choice.employeeId = NoEmployee
                /\ conflicts' = conflicts \o choice.pushed
                                \o <<ConflictNoPerson(cur.shiftType, cur.day)>>
                /\ vmAssignmentsByDate' = choice.vm
    /\ pos' = AfterBreak(pos)
    /\ pc' = "shift"
    /\ UNCHANGED <<previous, currentDate, currentWeek,
                   options, assignments, employeeWorkloads, teamWorkloads, teamTargets,
                   apprenticeIndices, apprenticeShiftCounts, weekStart, firstWeek,
                   assignedCount, origin, result, lastCall, attempted, probe>>

\* while (weekStart <= endDate) is false: the result is returned
Return ==
    /\ pc = "week"
    /\ ~(weekStart <= options.endDate)
    /\ result' = ScheduleResult(Engine)
    /\ pc' = "done"
    /\ UNCHANGED <<previous, currentDate, currentWeek,
                   options, assignments, conflicts, employeeWorkloads, teamWorkloads,
                   teamTargets, vmAssignmentsByDate, apprenticeIndices,
                   apprenticeShiftCounts, weekStart, firstWeek, pos, assignedCount,
                   origin, lastCall, attempted, probe>>

Next ==
    \/ BeginWeek
    \/ EnterShift
    \/ FillSlot
    \/ SlotConflict
    \/ LeaveShift
    \/ EndWeek
    \/ Return

Spec == Init /\ [][Next]_vars

\* runs over one and two weeks with feasible and infeasible demand and with
\* mandatory follow-up rules that form a cycle
TerminationConfigs ==
    { OptionsOf(ShiftOf("a", n, {"monday", "tuesday"}), ShiftOf("b", 1, {"monday", "tuesday"}),
                rules, p1, p2, <<>>, endDate) :
        n \in 1..MaxNeed,
        rules \in {<<>>, <<Mandatory("a", "b", TRUE)>>,
                   <<Mandatory("a", "b", FALSE), Mandatory("b", "a", FALSE)>>},
        p1 \in {[allowed |-> {"a", "b"}, availability |-> AllSlots, absent |-> FALSE,
                 lehrjahr |-> 0],
                [allowed |-> {"a"}, availability |-> AllSlots, absent |-> FALSE,
                 lehrjahr |-> 0]},
        p2 \in {[allowed |-> {"a", "b"}, availability |-> AllSlots, absent |-> FALSE,
                 lehrjahr |-> 2],
                [allowed |-> {"a", "b"}, availability |-> AllSlots, absent |-> TRUE,
                 lehrjahr |-> 0]},
        endDate \in {1, MaxEndDate} }

InitTermination == \E opts \in TerminationConfigs : InitOf(opts, "week")

\* schedule() is one synchronous call: a step that can be taken is taken
FairSpec == InitTermination /\ [][Next]_vars /\ WF_vars(Next)

\* ---------------------------------------------------------------------------
\* applyMandatoryFollowUps called directly, any number of times, on an engine
\* that was just constructed
\* ---------------------------------------------------------------------------
ApplyExistingLists ==
    ExistingLists("a") \cup
    { <<[employeeId |-> "e1", shiftId |-> "b", date |-> 1, locked |-> FALSE,
         isFollowUp |-> TRUE]>> }

ApplyConfigs ==
    { OptionsOf(ShiftOf("a", n[1], {"monday", "tuesday"}),
                ShiftOf("b", n[2], {"monday", "tuesday"}),
                rules, p1, p2, existing, 1) :
        n \in NeedPairs,
        rules \in RuleLists("a", "b"),
        p1 \in Profiles("a", "b"),
        p2 \in {[allowed |-> {"a", "b"}, availability |-> AllSlots, absent |-> FALSE,
                 lehrjahr |-> 0]},
        existing \in ApplyExistingLists }

InitApply == \E opts \in ApplyConfigs : InitOf(opts, "apply")

ApplyDirect ==
    /\ pc = "apply"
    /\ lastCall.calls < MaxCalls
    /\ \E i \in DOMAIN options.employees, date \in options.startDate..options.endDate,
          k \in DOMAIN options.shiftTypes :
          LET employee == options.employees[i]
              shiftType == options.shiftTypes[k]
              after == applyMandatoryFollowUps(options, Engine, employee, date, shiftType)
              same == /\ lastCall.employeeId = employee.id
                      /\ lastCall.date = date
                      /\ lastCall.shiftId = shiftType.id
          IN  /\ assignments' = after.assignments
              /\ conflicts' = after.conflicts
              /\ employeeWorkloads' = after.employeeWorkloads
              /\ teamWorkloads' = after.teamWorkloads
              /\ apprenticeShiftCounts' = after.apprenticeShiftCounts
              /\ origin' = origin \o [j \in 1..(Len(after.assignments) - Len(assignments))
                                        |-> "followUp"]
              /\ lastCall' = [employeeId |-> employee.id, date |-> date,
                              shiftId |-> shiftType.id,
                              times |-> IF same THEN lastCall.times + 1 ELSE 1,
                              calls |-> lastCall.calls + 1]
    /\ UNCHANGED <<previous, currentDate, currentWeek,
                   options, teamTargets, vmAssignmentsByDate, apprenticeIndices, pc,
                   weekStart, firstWeek, pos, assignedCount, result, attempted, probe>>

NextApply == ApplyDirect

SpecApply == InitApply /\ [][NextApply]_vars

\* ---------------------------------------------------------------------------
\* isEmployeeAvailable or violatesForbiddenSequence called directly, once, on an
\* engine that was just constructed
\* ---------------------------------------------------------------------------
ProbeRules ==
    { <<>>,
      <<Forbidden("a", "b", TRUE)>>,
      <<Forbidden("a", "b", FALSE)>>,
      <<Mandatory("a", "b", FALSE), Forbidden("b", "a", FALSE)>>,
      <<Mandatory("a", "b", TRUE)>>,
      <<[type |-> "required_sequence", fromShiftId |-> "a", toShiftId |-> NoShift,
         toShiftIds |-> {"b"}, sameDay |-> TRUE],
        [type |-> "forbidden_sequence", fromShiftId |-> "c", toShiftId |-> NoShift,
         toShiftIds |-> {"a", "b"}, sameDay |-> FALSE]>> }

ProbeExistingLists ==
    { <<>>,
      <<Existing("e1", "a", 1, FALSE)>>,
      <<Existing("e1", "b", 2, TRUE)>>,
      <<Existing("e2", "a", 1, FALSE), Existing("e1", "b", 1, TRUE)>> }

ProbeConfigs ==
    { OptionsWith(<<EmployeeWith("e1", "t1", 0, {"a", "b", "c"}, av, <<>>),
                    EmployeeWith("e2", "t2", 0, {"a", "b"}, AllSlots, <<>>)>>,
                  Teams,
                  <<ShiftOf("a", 1, {"monday"}), ShiftOf("b", 1, {"monday"}),
                    ShiftOf("early", 1, {"monday"}), ShiftOf("c", 1, {"monday"}),
                    ShiftOf("n3", 1, {"monday"}), ShiftOf("late", 1, {"monday"})>>,
                  rules, absences, existing, 0, 6) :
        av \in { AllSlots, Weekdays \X {"AM"}, Weekdays \X {"PM"},
                 AllSlots \ {<<"tuesday", "PM">>}, {} },
        absences \in {<<>>, <<[employeeId |-> "e1", startDate |-> 1, endDate |-> 2]>>},
        rules \in ProbeRules,
        existing \in ProbeExistingLists }

InitProbe == \E opts \in ProbeConfigs : InitOf(opts, "probe")

\* isEmployeeAvailable(employee, date, shiftType) is called; it reads and returns
ProbeAvailable ==
    /\ pc = "probe"
    /\ probe.fn = "none"
    /\ \E i \in DOMAIN options.employees, date \in options.startDate..options.endDate,
          k \in DOMAIN options.shiftTypes :
          probe' = [fn |-> "isEmployeeAvailable",
                    employeeId |-> options.employees[i].id,
                    date |-> date,
                    shiftId |-> options.shiftTypes[k].id,
                    returned |-> isEmployeeAvailable(options, options.employees[i], date,
                                                     options.shiftTypes[k])]
    /\ UNCHANGED <<previous, currentDate, currentWeek,
                   options, assignments, conflicts, employeeWorkloads, teamWorkloads,
                   teamTargets, vmAssignmentsByDate, apprenticeIndices,
                   apprenticeShiftCounts, pc, weekStart, firstWeek, pos, assignedCount,
                   origin, result, lastCall, attempted>>

\* violatesForbiddenSequence(employee, date, shiftType) is called; it reads and returns
ProbeForbidden ==
    /\ pc = "probe"
    /\ probe.fn = "none"
    /\ \E i \in DOMAIN options.employees, date \in options.startDate..options.endDate,
          k \in DOMAIN options.shiftTypes :
          probe' = [fn |-> "violatesForbiddenSequence",
                    employeeId |-> options.employees[i].id,
                    date |-> date,
                    shiftId |-> options.shiftTypes[k].id,
                    returned |-> violatesForbiddenSequence(options, assignments,
                                                           options.employees[i], date,
                                                           options.shiftTypes[k])]
    /\ UNCHANGED <<previous, currentDate, currentWeek,
                   options, assignments, conflicts, employeeWorkloads, teamWorkloads,
                   teamTargets, vmAssignmentsByDate, apprenticeIndices,
                   apprenticeShiftCounts, pc, weekStart, firstWeek, pos, assignedCount,
                   origin, result, lastCall, attempted>>

NextProbe == ProbeAvailable \/ ProbeForbidden

SpecProbe == InitProbe /\ [][NextProbe]_vars

\* ---------------------------------------------------------------------------
\* The weekly-rotation variant of the engine (src/unnamed/part_001).  Its
\* constructor differs from the one above in initializeTeamTargets and in the
\* absence of usage counts; isEmployeeAvailable, violatesForbiddenSequence,
\* calculateShiftDuration and the comparator of the sort are the same code.
\* ---------------------------------------------------------------------------
\* String.localeCompare on the employee ids of the inputs
IdCollation == <<"e1", "e2", "e3">>

\* this.apprenticesByYear[year] after the sort by id, as the list of the ids
apprenticeList(opts, year) ==
    SelectSeq(IdCollation, LAMBDA id : id \in {e.id : e \in apprenticesByYear(opts, year)})

\* this.activeApprenticeByYear[year]: it is assigned list[0] with index 0 by the
\* constructor and list[apprenticeIndices[year]] at every rotation
activeApprenticeByYear(opts, indices, year) == apprenticeList(opts, year)[indices[year] + 1]

\* getWeekKey: the Monday of the week of date
getWeekKey(date) == date - ((getDay(date) + 6) % 7)

isApprenticeAllowed(opts, indices, employee) ==
    IF ~IsApprentice(employee) THEN TRUE
    ELSE activeApprenticeByYear(opts, indices, employee.lehrjahr) = employee.id

\* initializeTeamTargets of the variant: every scheduling day counts shiftTypes.length
initializeTeamTargetsWeekly(opts) ==
    LET days == {d \in opts.startDate..opts.endDate : getWeekdayName(d) # NoDay}
        totalSlots == Cardinality(days) * Len(opts.shiftTypes)
        team(id) == CHOOSE t \in Range(opts.teams) : t.id = id
    IN  [id \in TeamIds(opts) |-> RoundHundredth(team(id).overallShiftPercentage * totalSlots)]

\* the push of an assignment and the counter updates that follow it
pushWeekly(eng, employee, shiftType, dateStr, isFollowUp) ==
    LET assignment == NewAssignment(employee, shiftType, dateStr, isFollowUp)
        duration == calculateShiftDuration(shiftType)
    IN  [eng EXCEPT
            !.assignments = Append(@, assignment),
            !.teamWorkloads[employee.teamId] = @ + 1,
            !.employeeWorkloads[employee.id] =
                [@ EXCEPT !.hours = @ + duration,
                          !.shifts = @ + 1,
                          !.daysWorkedThisPeriod = @ \cup {dateStr}]]

RECURSIVE applyFromWeekly(_, _, _, _, _, _)
\* the loop of applyMandatoryFollowUps of the variant from rule index r on
applyFromWeekly(opts, eng, employee, date, shiftType, r) ==
    IF r > Len(opts.shiftRules) THEN eng
    ELSE
    LET rule == opts.shiftRules[r]
        toShift == shiftMap(opts, rule.toShiftId)
        followDate == FollowDate(rule, date)
        skip == applyFromWeekly(opts, eng, employee, date, shiftType, r + 1)
    IN  IF rule.type # "mandatory_follow_up" \/ rule.fromShiftId # shiftType.id THEN skip
        ELSE IF ~KnownShift(opts, rule.toShiftId) THEN skip
        ELSE IF FirstYearException(opts, employee, rule, toShift) THEN skip
        ELSE IF toShift.id \notin employee.allowedShifts
        THEN Bind([eng EXCEPT !.conflicts =
                      Append(@, ConflictNotAllowed(toShift, employee, followDate))],
                  LAMBDA pushed :
                      applyFromWeekly(opts, pushed, employee, date, shiftType, r + 1))
        ELSE IF ~isEmployeeAvailable(opts, employee, followDate, toShift)
        THEN Bind([eng EXCEPT !.conflicts =
                      Append(@, ConflictNotAvailable(toShift, employee, followDate))],
                  LAMBDA pushed :
                      applyFromWeekly(opts, pushed, employee, date, shiftType, r + 1))
        ELSE IF AlreadyPlaced(eng.assignments, employee, followDate, toShift) THEN skip
        ELSE Bind(pushWeekly(eng, employee, toShift, followDate, TRUE),
                  LAMBDA placed :
                      applyFromWeekly(opts, placed, employee, date, shiftType, r + 1))

applyMandatoryFollowUpsWeekly(opts, eng, employee, date, shiftType) ==
    applyFromWeekly(opts, eng, employee, date, shiftType, 1)

\* the push of a primary assignment followed by applyMandatoryFollowUps
commitWeekly(opts, eng, employee, day, shiftType) ==
    Bind(pushWeekly(eng, employee, shiftType, day, FALSE), LAMBDA created :
         applyMandatoryFollowUpsWeekly(opts, created, employee, day, shiftType))

\* the "1. VM" slot goes to the holder of "0." of the same date, or a conflict
pairVmWeekly(opts, eng, day, shiftType) ==
    IF KnownShift(opts, firstVmShiftId(opts)) /\ KnownShift(opts, zeroShiftId(opts))
       /\ shiftType.id = firstVmShiftId(opts)
    THEN LET asg == eng.assignments
             idx == SelectIdx(asg, LAMBDA a : a.date = day /\ a.shiftId = zeroShiftId(opts)
                                              /\ ~a.isFollowUp, 1)
             fits(emp) == /\ shiftType.id \in emp.allowedShifts
                          /\ isEmployeeAvailable(opts, emp, day, shiftType)
                          /\ ~violatesForbiddenSequence(opts, asg, emp, day, shiftType)
         IN  IF idx = <<>> THEN [assigned |-> FALSE, eng |-> eng]
             ELSE IF KnownEmployee(opts, asg[idx[1]].employeeId)
                     /\ fits(FindEmployee(opts, asg[idx[1]].employeeId))
             THEN [assigned |-> TRUE,
                   eng |-> commitWeekly(opts, eng, FindEmployee(opts, asg[idx[1]].employeeId),
                                        day, shiftType)]
             ELSE [assigned |-> FALSE,
                   eng |-> [eng EXCEPT !.conflicts = Append(@, ConflictVmPair(day))]]
    ELSE [assigned |-> FALSE, eng |-> eng]

\* emp goes to the list preferredFirst
IsPreferredWeekly(opts, indices, emp) ==
    IF IsApprentice(emp) /\ Cardinality(apprenticesByYear(opts, emp.lehrjahr)) > 1
    THEN emp.id = apprenticeList(opts, emp.lehrjahr)[indices[emp.lehrjahr] + 1]
    ELSE TRUE

\* [...preferredFirst, ...others]
CandidatesWeekly(opts, eng, targets, indices, shiftType) ==
    Bind(SortedEmployees(opts, eng, targets, shiftType), LAMBDA sorted :
         SelectSeq(sorted, LAMBDA e : IsPreferredWeekly(opts, indices, e))
         \o SelectSeq(sorted, LAMBDA e : ~IsPreferredWeekly(opts, indices, e)))

\* the tests of the candidate loop: no continue is taken
PassesWeekly(opts, asg, indices, employee, day, shiftType) ==
    /\ isApprenticeAllowed(opts, indices, employee)
    /\ shiftType.id \in employee.allowedShifts
    /\ isEmployeeAvailable(opts, employee, day, shiftType)
    /\ ~HasPrimaryOn(asg, employee.id, day)
    /\ ~violatesForbiddenSequence(opts, asg, employee, day, shiftType)

\* one pass of the slot loop
fillSlotWeekly(opts, eng, targets, indices, day, shiftType) ==
    Bind(pairVmWeekly(opts, eng, day, shiftType), LAMBDA pv :
    IF pv.assigned THEN pv.eng
    ELSE
    Bind(CandidatesWeekly(opts, pv.eng, targets, indices, shiftType), LAMBDA candidates :
        LET idx == SelectIdx(candidates,
                             LAMBDA e : PassesWeekly(opts, pv.eng.assignments, indices, e,
                                                     day, shiftType), 1)
        IN  IF idx = <<>>
            THEN [pv.eng EXCEPT !.conflicts = Append(@, ConflictNoPerson(shiftType, day))]
            ELSE commitWeekly(opts, pv.eng, candidates[idx[1]], day, shiftType)))

RECURSIVE fillSlotsWeekly(_, _, _, _, _, _, _)
\* for (let slot = 0; slot < slotsToFill; slot++) with slots passes left
fillSlotsWeekly(opts, eng, targets, indices, day, shiftType, slots) ==
    IF slots = 0 THEN eng
    ELSE Bind(fillSlotWeekly(opts, eng, targets, indices, day, shiftType), LAMBDA after :
              fillSlotsWeekly(opts, after, targets, indices, day, shiftType, slots - 1))

\* the body of the loop over the shift types
fillShiftWeekly(opts, eng, targets, indices, day, shiftType) ==
    LET need == NeedOf(shiftType, getWeekdayName(day))
        existing == CountFor(eng.assignments, day, shiftType.id)
    IN  IF need <= existing THEN eng
        ELSE fillSlotsWeekly(opts, eng, targets, indices, day, shiftType, need - existing)

\* the value returned by schedule() of the variant
ScheduleResultWeekly(eng) ==
    [returned |-> TRUE,
     assignments |-> eng.assignments,
     conflicts |-> eng.conflicts,
     statistics |-> [totalAssignments |-> Len(eng.assignments),
                     unassignedShifts |-> Len(eng.conflicts),
                     employeeWorkloads |-> eng.employeeWorkloads,
                     teamWorkloads |-> eng.teamWorkloads]]

\* a cohort of two second-year apprentices and shift "C", over two weeks
WeeklyConfigs ==
    { OptionsWith([k \in DOMAIN order |->
                      IF order[k] = "e3"
                      THEN EmployeeWith("e3", "t2", 0, {"a"}, AllSlots, <<>>)
                      ELSE EmployeeWith(order[k], "t1", 2, {"a", "c"},
                                        IF order[k] = "e1" THEN av ELSE AllSlots, <<>>)],
                  Teams,
                  <<ShiftOf("c", n, Weekdays), ShiftOf("a", 1, {"monday", "thursday"})>>,
                  rules, <<>>, <<>>, startDate, endDate) :
        order \in {<<"e1", "e2">>, <<"e2", "e1">>, <<"e2", "e3", "e1">>},
        av \in {AllSlots, AllSlots \ {<<"wednesday", "AM">>}},
        n \in 1..MaxNeed,
        rules \in {<<>>, <<Mandatory("c", "a", FALSE)>>},
        startDate \in {0, 2},
        endDate \in {11, 13} }

\* new ShiftScheduler(options) of the variant; the fields it does not have keep
\* their initial values
InitWeekly ==
    \E opts \in WeeklyConfigs :
        LET eng == Construct(opts)
        IN  /\ options = opts
            /\ assignments = eng.assignments
            /\ conflicts = eng.conflicts
            /\ employeeWorkloads = eng.employeeWorkloads
            /\ teamWorkloads = eng.teamWorkloads
            /\ teamTargets = initializeTeamTargetsWeekly(opts)
            /\ vmAssignmentsByDate = <<>>
            /\ apprenticeIndices = initializeApprentices(opts).indices
            /\ apprenticeShiftCounts = eng.apprenticeShiftCounts
            /\ pc = "day"
            /\ weekStart = opts.startDate
            /\ firstWeek = TRUE
            /\ pos = 0
            /\ assignedCount = 0
            /\ origin = [i \in DOMAIN opts.existingAssignments |-> "existing"]
            /\ result = NoResult
            /\ lastCall = NoCall
            /\ attempted = <<>>
            /\ probe = NoProbe
            /\ currentDate = opts.startDate
            /\ currentWeek = getWeekKey(opts.startDate)
            /\ previous = NoResult

\* while (currentDate <= endDate), if (weekday): a scheduling day begins, and the
\* rotation state advances when the day is of another week than the last one
BeginDay ==
    /\ pc = "day"
    /\ currentDate <= options.endDate
    /\ getWeekdayName(currentDate) # NoDay
    /\ currentWeek' = getWeekKey(currentDate)
    /\ apprenticeIndices' = IF getWeekKey(currentDate) # currentWeek
                            THEN rotateApprentices(options, apprenticeIndices)
                            ELSE apprenticeIndices
    /\ pos' = 1
    /\ pc' = "types"
    /\ UNCHANGED <<previous, currentDate, options, assignments, conflicts, employeeWorkloads,
                   teamWorkloads, teamTargets, vmAssignmentsByDate, apprenticeShiftCounts,
                   weekStart, firstWeek, assignedCount, origin, result, lastCall,
                   attempted, probe>>

\* while (currentDate <= endDate), if (weekday) is false: a Saturday or a Sunday
SkipDay ==
    /\ pc = "day"
    /\ currentDate <= options.endDate
    /\ getWeekdayName(currentDate) = NoDay
    /\ currentDate' = currentDate + 1
    /\ UNCHANGED <<previous, currentWeek, options, assignments, conflicts, employeeWorkloads,
                   teamWorkloads, teamTargets, vmAssignmentsByDate, apprenticeIndices,
                   apprenticeShiftCounts, pc, weekStart, firstWeek, pos, assignedCount,
                   origin, result, lastCall, attempted, probe>>

\* one pass of the loop over the shift types: all slots of the shift type
FillShift ==
    /\ pc = "types"
    /\ pos <= Len(options.shiftTypes)
    /\ \E after \in {fillShiftWeekly(options, Engine, teamTargets, apprenticeIndices,
                                     currentDate, options.shiftTypes[pos])} :
          /\ assignments' = after.assignments
          /\ conflicts' = after.conflicts
          /\ employeeWorkloads' = after.employeeWorkloads
          /\ teamWorkloads' = after.teamWorkloads
          /\ origin' = origin \o [i \in 1..(Len(after.assignments) - Len(assignments)) |->
                                    IF after.assignments[Len(assignments) + i].isFollowUp
                                    THEN "followUp" ELSE "ranked"]
    /\ pos' = pos + 1
    /\ UNCHANGED <<previous, currentDate, currentWeek, options, teamTargets, vmAssignmentsByDate,
                   apprenticeIndices, apprenticeShiftCounts, pc, weekStart, firstWeek,
                   assignedCount, result, lastCall, attempted, probe>>

\* the loop over the shift types is over: currentDate.setDate(getDate() + 1)
EndDay ==
    /\ pc = "types"
    /\ pos > Len(options.shiftTypes)
    /\ currentDate' = currentDate + 1
    /\ pc' = "day"
    /\ UNCHANGED <<previous, currentWeek, options, assignments, conflicts, employeeWorkloads,
                   teamWorkloads, teamTargets, vmAssignmentsByDate, apprenticeIndices,
                   apprenticeShiftCounts, weekStart, firstWeek, pos, assignedCount,
                   origin, result, lastCall, attempted, probe>>

\* while (currentDate <= endDate) is false: the result is returned
ReturnWeekly ==
    /\ pc = "day"
    /\ ~(currentDate <= options.endDate)
    /\ result' = ScheduleResultWeekly(Engine)
    /\ pc' = "done"
    /\ UNCHANGED <<previous, currentDate, currentWeek, options, assignments, conflicts,
                   employeeWorkloads, teamWorkloads, teamTargets, vmAssignmentsByDate,
                   apprenticeIndices, apprenticeShiftCounts, weekStart, firstWeek, pos,
                   assignedCount, origin, lastCall, attempted, probe>>

NextWeekly ==
    \/ BeginDay
    \/ SkipDay
    \/ FillShift
    \/ EndDay
    \/ ReturnWeekly

SpecWeekly == InitWeekly /\ [][NextWeekly]_vars

\* ---------------------------------------------------------------------------
\* generateShiftSchedule called a second time by the caller, with the same
\* options and the assignments that the first call returned as
\* existingAssignments (handleAssignmentChange of the plan view)
\* ---------------------------------------------------------------------------
RerunConfigs == RuleConfigs \cup PairConfigs \cup CohortConfigs \cup ChainConfigs

InitRerun == \E opts \in RerunConfigs : InitOf(opts, "week")

\* the options of the second call
RerunOptions == [options EXCEPT !.existingAssignments = result.assignments]

\* the first call has returned: a new engine is constructed for the second call
Rerun ==
    /\ pc = "done"
    /\ ~previous.returned
    /\ \E opts \in {RerunOptions} : \E eng \in {Construct(opts)} :
          /\ options' = opts
          /\ assignments' = eng.assignments
          /\ conflicts' = eng.conflicts
          /\ employeeWorkloads' = eng.employeeWorkloads
          /\ teamWorkloads' = eng.teamWorkloads
          /\ teamTargets' = initializeTeamTargets(opts)
          /\ apprenticeIndices' = initializeApprentices(opts).indices
          /\ apprenticeShiftCounts' = eng.apprenticeShiftCounts
          /\ weekStart' = opts.startDate
          /\ origin' = [i \in DOMAIN opts.existingAssignments |-> "existing"]
    /\ vmAssignmentsByDate' = <<>>
    /\ pc' = "week"
    /\ firstWeek' = TRUE
    /\ pos' = 0
    /\ assignedCount' = 0
    /\ result' = NoResult
    /\ attempted' = <<>>
    /\ previous' = result
    /\ UNCHANGED <<lastCall, probe, currentDate, currentWeek>>

NextRerun ==
    \/ Next
    \/ Rerun

SpecRerun == InitRerun /\ [][NextRerun]_vars

\* ===========================================================================
\* Properties
\* ===========================================================================
\* assignments of list that are primaries of employee e on date d
PrimariesOf(list, e, d) ==
    {i \in DOMAIN list : list[i].employeeId = e /\ list[i].date = d /\ ~list[i].isFollowUp}

EmployeeIds == {options.employees[i].id : i \in DOMAIN options.employees}

Dates == options.startDate..(options.endDate + 1)

ExistingSinglePrimary ==
    \A e \in EmployeeIds, d \in Dates :
        Cardinality(PrimariesOf(options.existingAssignments, e, d)) <= 1

\* C1 - No double-booking: when the existing assignments hold at most one primary
\* per (employee, date), the returned assignments hold, for every employee and
\* date, at most one primary, unless the primaries are the "0."/"1. VM" pair.
C1_NoDoubleBooking ==
    (result.returned /\ ExistingSinglePrimary) =>
        \A e \in EmployeeIds, d \in Dates :
            LET prim == PrimariesOf(result.assignments, e, d)
            IN  \/ Cardinality(prim) <= 1
                \/ /\ Cardinality(prim) = 2
                   /\ {result.assignments[i].shiftId : i \in prim}
                          = {zeroShiftId(options), firstVmShiftId(options)}

\* a returned plan with primaries of ranked and of fallback selection in which an
\* employee holds a primary and another assignment
C1_Witness ==
    /\ result.returned
    /\ ExistingSinglePrimary
    /\ {"ranked", "fallback"} \subseteq Range(origin)
    /\ \E i, j \in DOMAIN assignments :
          /\ i # j
          /\ assignments[i].employeeId = assignments[j].employeeId
          /\ origin[i] = "fallback"

\* C2 - Availability respected: every assignment the engine commits (primary by
\* pairing, by ranked selection or by fallback, and every follow-up) is on a date
\* and shift for which isEmployeeAvailable holds for its employee.
C2_AvailabilityRespected ==
    \A i \in DOMAIN assignments :
        origin[i] # "existing" =>
            isEmployeeAvailable(options, FindEmployee(options, assignments[i].employeeId),
                                assignments[i].date,
                                shiftMap(options, assignments[i].shiftId))

\* the slot loop has just committed, the plan holds a ranked primary, a fallback
\* primary and a follow-up, and some employee is absent or not always available
C2_Witness ==
    /\ pc = "slot"
    /\ {"ranked", "fallback", "followUp"} \subseteq Range(origin)
    /\ \/ options.absences # <<>>
       \/ \E i \in DOMAIN options.employees : options.employees[i].availability # AllSlots

\* a and b, assignments of one employee, trigger the forbidden_sequence rule
Triggers(rule, a, b) ==
    /\ rule.type = "forbidden_sequence"
    /\ a.employeeId = b.employeeId
    /\ a.shiftId = rule.fromShiftId
    /\ b.shiftId \in rule.toShiftIds
    /\ b.date = (IF rule.sameDay THEN a.date ELSE a.date + 1)

NoForbiddenPair(list) ==
    \A i, j \in DOMAIN list : \A r \in DOMAIN options.shiftRules :
        i # j => ~Triggers(options.shiftRules[r], list[i], list[j])

\* C3 - Forbidden sequence respected: starting from existing assignments that
\* violate no rule, no two returned assignments of one employee trigger a
\* forbidden_sequence rule, fallback primaries and follow-ups included.
C3_ForbiddenSequenceRespected ==
    (result.returned /\ NoForbiddenPair(options.existingAssignments)) =>
        NoForbiddenPair(result.assignments)

IsNoPersonConflict(c, shiftType, d) ==
    c = ConflictNoPerson(shiftType, d)

\* number of assignments of list for shift id sid on date d
Filled(list, d, sid) ==
    Cardinality({i \in DOMAIN list : list[i].date = d /\ list[i].shiftId = sid})

SchedulingDates == {d \in options.startDate..options.endDate : getWeekdayName(d) # NoDay}

\* C4 - Conservation: at the end of a run, for every weekday date of the range
\* and every shift type, assignments plus unmet-demand conflicts for that
\* (date, shift) equal the demand of the shift for that weekday.
C4_Conservation ==
    result.returned =>
        \A d \in SchedulingDates : \A k \in DOMAIN options.shiftTypes :
            LET st == options.shiftTypes[k]
            IN  Filled(result.assignments, d, st.id)
                  + Count(result.conflicts, LAMBDA c : IsNoPersonConflict(c, st, d))
                = NeedOf(st, getWeekdayName(d))

ExistingWithinDemand ==
    \A d \in SchedulingDates : \A k \in DOMAIN options.shiftTypes :
        Filled(options.existingAssignments, d, options.shiftTypes[k].id)
            <= NeedOf(options.shiftTypes[k], getWeekdayName(d))

\* C4 amended - at the end of a run, for every weekday date of the range and
\* every shift type, the assignments for that (date, shift) do not exceed the
\* demand (when the existing ones do not), and when they stay below it exactly
\* one unmet-demand conflict for that (shift, date) is returned: a (date, shift)
\* with unfilled units, not every unfilled unit, ends as one conflict.
C4_ConservationAmended ==
    (result.returned /\ ExistingWithinDemand) =>
        \A d \in SchedulingDates : \A k \in DOMAIN options.shiftTypes :
            LET st == options.shiftTypes[k]
                filled == Filled(result.assignments, d, st.id)
                reported == Count(result.conflicts, LAMBDA c : IsNoPersonConflict(c, st, d))
            IN  /\ filled <= NeedOf(st, getWeekdayName(d))
                /\ reported <= 1
                /\ filled < NeedOf(st, getWeekdayName(d)) => reported = 1

\* a returned plan with a demand of two or more of which no unit was filled and
\* one of which one unit was filled
C4_Witness ==
    /\ result.returned
    /\ ExistingWithinDemand
    /\ \E d \in SchedulingDates : \E k \in DOMAIN options.shiftTypes :
          /\ NeedOf(options.shiftTypes[k], getWeekdayName(d)) >= 2
          /\ Filled(result.assignments, d, options.shiftTypes[k].id) = 0
    /\ \E d \in SchedulingDates : \E k \in DOMAIN options.shiftTypes :
          /\ NeedOf(options.shiftTypes[k], getWeekdayName(d)) >= 2
          /\ Filled(result.assignments, d, options.shiftTypes[k].id) = 1

\* the step appends a primary assignment (the slot loop committed)
CommitsPrimary ==
    /\ pc = "slot"
    /\ Len(assignments') > Len(assignments)

NewPrimary == assignments'[Len(assignments) + 1]

\* C5 - Same-day mandatory follow-up: when a primary of A is committed to an
\* employee who is allowed and available for B on that date, a rule A -> B with
\* sameDay holds and the demand of B for that weekday is 1 and not yet filled,
\* the plan then holds a follow-up of B for that employee on the same date.
C5_SameDayFollowUp ==
    [][CommitsPrimary =>
        \A r \in DOMAIN options.shiftRules :
            LET rule == options.shiftRules[r]
                employee == FindEmployee(options, NewPrimary.employeeId)
                toShift == shiftMap(options, rule.toShiftId)
            IN  ( /\ rule.type = "mandatory_follow_up"
                  /\ rule.sameDay
                  /\ rule.fromShiftId = NewPrimary.shiftId
                  /\ KnownShift(options, rule.toShiftId)
                  /\ toShift.id \in employee.allowedShifts
                  /\ isEmployeeAvailable(options, employee, NewPrimary.date, toShift)
                  /\ NeedOf(toShift, getWeekdayName(NewPrimary.date)) = 1
                  /\ Filled(assignments, NewPrimary.date, toShift.id) = 0 )
                => \E j \in DOMAIN assignments' :
                       /\ assignments'[j].employeeId = employee.id
                       /\ assignments'[j].shiftId = toShift.id
                       /\ assignments'[j].date = NewPrimary.date
                       /\ assignments'[j].isFollowUp
      ]_vars

\* employee id e, holder of "1. VM" on date d, could take "0." on d were it not
\* for the primary he holds
PairEligible(e, d) ==
    LET employee == FindEmployee(options, e)
        zero == shiftMap(options, zeroShiftId(options))
    IN  /\ zero.id \in employee.allowedShifts
        /\ isEmployeeAvailable(options, employee, d, zero)
        /\ ~violatesForbiddenSequence(options, assignments, employee, d, zero)
        /\ \A r \in DOMAIN options.shiftRules :
              ~(options.shiftRules[r].type = "mandatory_follow_up"
                /\ options.shiftRules[r].fromShiftId = zero.id)

\* C6 - "0."/"1. VM" linkage: when a "0." slot is filled on a date for which
\* "1. VM" was already assigned to an employee who is allowed and available for
\* "0." and blocked by no rule, the "0." slot goes to such an employee.
C6_PairLinkage ==
    [][(CommitsPrimary
        /\ KnownShift(options, zeroShiftId(options))
        /\ NewPrimary.shiftId = zeroShiftId(options)
        /\ NewPrimary.date \in DOMAIN vmAssignmentsByDate
        /\ \E e \in Range(vmAssignmentsByDate[NewPrimary.date]) :
               PairEligible(e, NewPrimary.date))
       => ( /\ NewPrimary.employeeId \in Range(vmAssignmentsByDate[NewPrimary.date])
            /\ PairEligible(NewPrimary.employeeId, NewPrimary.date) )
      ]_vars

NoDuplicateFollowUp(list) ==
    \A i, j \in DOMAIN list :
        ( /\ i # j
          /\ list[i].isFollowUp /\ list[j].isFollowUp
          /\ list[i].employeeId = list[j].employeeId
          /\ list[i].date = list[j].date )
        => list[i].shiftId # list[j].shiftId

\* C7 - Idempotent follow-up application: a second call of
\* applyMandatoryFollowUps for the same (employee, date, shift) adds no
\* assignment and leaves hours, shift counts and team counters unchanged, and no
\* call produces a second follow-up for one (employee, date, shift).
C7_IdempotentFollowUp ==
    [][ /\ (pc = "apply" /\ lastCall'.times >= 2) =>
              /\ assignments' = assignments
              /\ employeeWorkloads' = employeeWorkloads
              /\ teamWorkloads' = teamWorkloads
        /\ (pc = "apply" /\ NoDuplicateFollowUp(assignments)) =>
              NoDuplicateFollowUp(assignments')
      ]_vars

\* the same trigger was applied twice and its first application placed a follow-up
C7_Witness ==
    /\ pc = "apply"
    /\ lastCall.times >= 2
    /\ \E i \in DOMAIN assignments : \E r \in DOMAIN options.shiftRules :
          /\ origin[i] = "followUp"
          /\ assignments[i].employeeId = lastCall.employeeId
          /\ options.shiftRules[r].type = "mandatory_follow_up"
          /\ options.shiftRules[r].fromShiftId = lastCall.shiftId
          /\ options.shiftRules[r].toShiftId = assignments[i].shiftId
          /\ assignments[i].date = FollowDate(options.shiftRules[r], lastCall.date)

\* C9 - Termination: every run of schedule() reaches DONE and returns a result.
C9_Termination == <>(pc = "done" /\ result.returned)

\* a run has returned although demand stayed unmet and the mandatory follow-up
\* rules form a cycle
C9_Witness ==
    /\ pc = "done"
    /\ result.returned
    /\ \E c \in Range(result.conflicts) : c.kind = ConflictNoPerson(options.shiftTypes[1], 0).kind
    /\ \E r1, r2 \in DOMAIN options.shiftRules :
          /\ options.shiftRules[r1].type = "mandatory_follow_up"
          /\ options.shiftRules[r2].type = "mandatory_follow_up"
          /\ options.shiftRules[r1].toShiftId = options.shiftRules[r2].fromShiftId
          /\ options.shiftRules[r2].toShiftId = options.shiftRules[r1].fromShiftId

IsFollowUpConflict(c) ==
    c.kind \in {"Folgeschicht nicht erlaubt", "nicht verfuegbar fuer Folgeschicht"}

\* C10 - Blocked follow-up keeps its primary: for every returned follow-up
\* conflict naming employee E, follow-up shift B and date D, the returned
\* assignments hold a primary of E for the from-shift of a rule to B, on D for a
\* same-day rule and on the day before D otherwise.
C10_BlockedFollowUpKeepsPrimary ==
    result.returned =>
        \A c \in Range(result.conflicts) :
            IsFollowUpConflict(c) =>
                \E r \in DOMAIN options.shiftRules : \E i \in DOMAIN result.assignments :
                    LET rule == options.shiftRules[r]
                        a == result.assignments[i]
                    IN  /\ rule.type = "mandatory_follow_up"
                        /\ KnownShift(options, rule.toShiftId)
                        /\ shiftMap(options, rule.toShiftId).name = c.shift
                        /\ a.employeeId = c.employee
                        /\ a.shiftId = rule.fromShiftId
                        /\ ~a.isFollowUp
                        /\ a.date = (IF rule.sameDay THEN c.date ELSE c.date - 1)

\* employee of index i is allowed for the shift type, available for it on the day
\* and holds no primary on the day
FreeFor(i, day, shiftType) ==
    LET employee == options.employees[i]
    IN  /\ shiftType.id \in employee.allowedShifts
        /\ isEmployeeAvailable(options, employee, day, shiftType)
        /\ PrimariesOf(assignments, employee.id, day) = {}

\* the conflicts appended by the step
AddedConflicts == SubSeq(conflicts', Len(conflicts) + 1, Len(conflicts'))

\* C11 - Unmet demand is a conflict, and only unmet demand: a pass of the slot
\* loop for shift S on date D records the conflict naming S and D and commits
\* nothing exactly when no employee is allowed for S, available for S on D and
\* free of a primary on D; otherwise it commits a primary of S on D by pairing,
\* ranked selection or fallback and records no such conflict; the run goes on in
\* both cases.
C11_UnmetDemandIsConflict ==
    [][(pc = "slot" /\ assignedCount < Need) =>
          LET cur == Current
              noPerson == ConflictNoPerson(cur.shiftType, cur.day)
          IN  IF \E i \in DOMAIN options.employees : FreeFor(i, cur.day, cur.shiftType)
              THEN /\ Len(assignments') > Len(assignments)
                   /\ NewPrimary.shiftId = cur.shiftType.id
                   /\ NewPrimary.date = cur.day
                   /\ ~NewPrimary.isFollowUp
                   /\ origin'[Len(assignments) + 1]
                          \in {"pairZero", "pairVm", "ranked", "fallback"}
                   /\ noPerson \notin Range(AddedConflicts)
                   /\ pc' = "slot"
              ELSE /\ assignments' = assignments
                   /\ AddedConflicts # <<>>
                   /\ AddedConflicts[Len(AddedConflicts)] = noPerson
                   /\ pc' = "shift"
                   /\ pos' = pos + 1
      ]_vars

\* a slot has just ended as a conflict in a run in which an earlier slot was
\* filled by the fallback
C11_Witness ==
    /\ pc = "shift"
    /\ conflicts # <<>>
    /\ conflicts[Len(conflicts)].kind = "Keine verfuegbare Person"
    /\ "fallback" \in Range(origin)
    /\ "ranked" \in Range(origin)

\* the single-slot scenario: one shift type "Early" and one employee
IsScenario ==
    /\ Len(options.shiftTypes) = 1
    /\ options.shiftTypes[1].name = "Early"
    /\ Len(options.employees) = 1

\* C12 - Single-slot scenario: with one shift type "Early" (06:00-14:00) whose
\* only demand is 1 on Monday, one employee allowed on it whose availability has
\* monday_AM = true and no other flag, no rules and no absences, Monday to
\* Friday, the run returns exactly one assignment, on Monday, and no conflict.
C12_SingleSlotScenario ==
    (result.returned /\ IsScenario
     /\ options.employees[1].availability = {<<"monday", "AM">>}) =>
        /\ Len(result.assignments) = 1
        /\ result.assignments[1].date = 0
        /\ result.conflicts = <<>>

\* C12 amended - in the scenario the shift 06:00-14:00 starts before 12:00 and
\* ends after 12:00, so the slot is filled exactly when monday_AM and monday_PM
\* are both true: the run then returns exactly one assignment (the employee, on
\* Monday) and no conflict; with monday_AM alone (or monday_PM alone) it returns
\* no assignment and exactly one conflict, naming "Early" and the Monday.
C12_SingleSlotScenarioAmended ==
    (result.returned /\ IsScenario) =>
        IF {<<"monday", "AM">>, <<"monday", "PM">>} \subseteq options.employees[1].availability
        THEN /\ Len(result.assignments) = 1
             /\ result.assignments[1].date = 0
             /\ result.assignments[1].employeeId = options.employees[1].id
             /\ result.assignments[1].shiftId = options.shiftTypes[1].id
             /\ result.conflicts = <<>>
             /\ result.statistics.totalAssignments = 1
        ELSE /\ result.assignments = <<>>
             /\ Len(result.conflicts) = 1
             /\ result.conflicts[1].kind = "Keine verfuegbare Person"
             /\ result.conflicts[1].shift = "Early"
             /\ result.conflicts[1].date = 0

\* the scenario has returned for the employee with the morning flag alone
C12_Witness ==
    /\ result.returned
    /\ IsScenario
    /\ options.employees[1].availability = {<<"monday", "AM">>}
    /\ weekStart > options.endDate

\* C13 - Result consistency: in every returned result the conflict list holds no
\* string twice, statistics.unassignedShifts is the length of the returned
\* conflict list and statistics.totalAssignments is the length of the returned
\* assignment list.
C13_ResultConsistency ==
    result.returned =>
        /\ \A i, j \in DOMAIN result.conflicts :
               i # j => result.conflicts[i] # result.conflicts[j]
        /\ result.statistics.unassignedShifts = Len(result.conflicts)
        /\ result.statistics.totalAssignments = Len(result.assignments)

\* a result was returned by a run that pushed the same conflict more than once
\* and committed assignments
C13_Witness ==
    /\ result.returned
    /\ \E i, j \in DOMAIN conflicts : i # j /\ conflicts[i] = conflicts[j]
    /\ Len(result.conflicts) >= 2
    /\ Len(result.assignments) > Len(options.existingAssignments)

\* list starts with the existing assignments, unchanged and in their order, and
\* everything after them is unlocked
KeepsExisting(list) ==
    LET existing == options.existingAssignments
    IN  /\ Len(list) >= Len(existing)
        /\ \A i \in DOMAIN existing : list[i] = existing[i]
        /\ \A i \in DOMAIN list : i > Len(existing) => list[i].locked = FALSE

\* C14 - Existing assignments are preserved: at every point of a run the working
\* list starts with the existing assignments unchanged (locked or not) and every
\* assignment the engine added has locked=false; the returned list is that list;
\* and no step changes the existingAssignments list of the caller.
C14_ExistingPreserved ==
    /\ [](KeepsExisting(assignments) /\ (result.returned => KeepsExisting(result.assignments)))
    /\ [][options'.existingAssignments = options.existingAssignments]_vars

\* a result was returned for a run that started from a locked existing assignment
\* and added primaries and a follow-up
C14_Witness ==
    /\ result.returned
    /\ \E i \in DOMAIN options.existingAssignments : options.existingAssignments[i].locked
    /\ "followUp" \in Range(origin)
    /\ "ranked" \in Range(origin)

\* no two apprentices share a year
NoCohort ==
    \A i, j \in DOMAIN options.employees :
        LET a == options.employees[i]
            b == options.employees[j]
        IN  (i # j /\ a.employeeType = "azubi" /\ b.employeeType = "azubi"
             /\ a.lehrjahr # 0 /\ b.lehrjahr # 0) => a.lehrjahr # b.lehrjahr

TargetOf(i) ==
    LET team == options.employees[i].teamId
    IN  IF team \in DOMAIN teamTargets THEN teamTargets[team] ELSE 0

SlotsOf(i) == teamWorkloads[options.employees[i].teamId]

HoursOf(i) == employeeWorkloads[options.employees[i].id].hours

ScoreOf(i, shiftType) ==
    LET scores == options.employees[i].shiftSuitability
    IN  IF shiftType.id \in DOMAIN scores THEN scores[shiftType.id] ELSE 0

\* the team fill-ratio of employee i is lower than that of employee j; a team
\* of target 0 has the highest ratio
LowerRatio(i, j) ==
    /\ TargetOf(i) > 0
    /\ \/ TargetOf(j) = 0
       \/ SlotsOf(i) * TargetOf(j) < SlotsOf(j) * TargetOf(i)

\* employee i comes before employee j in the ranking for the shift type
RankedBefore(i, j, shiftType) ==
    \/ LowerRatio(i, j)
    \/ /\ ~LowerRatio(j, i)
       /\ \/ HoursOf(i) < HoursOf(j)
          \/ /\ HoursOf(i) = HoursOf(j)
             /\ \/ ScoreOf(i, shiftType) > ScoreOf(j, shiftType)
                \/ (ScoreOf(i, shiftType) = ScoreOf(j, shiftType) /\ i < j)

PassesCanAssign(i, day, shiftType) ==
    canAssign(options, assignments, options.employees[i], day, shiftType, day).ok

\* C15 - Candidate ranking: when no apprentice cohort has more than one member,
\* selectCandidate for shift S on date D returns, among the employees that pass
\* canAssign, the first in the order team fill-ratio ascending (target 0 last),
\* hours ascending, suitability for S descending, input order; it returns nobody
\* only if no employee passes canAssign.
C15_CandidateRanking ==
    (pc = "slot" /\ NoCohort) =>
        \A k \in DOMAIN options.shiftTypes :
            LET shiftType == options.shiftTypes[k]
                day == Current.day
                chosen == selectCandidate(options, Engine, teamTargets, day, shiftType).employeeId
                passers == {i \in DOMAIN options.employees : PassesCanAssign(i, day, shiftType)}
            IN  IF passers = {} THEN chosen = NoEmployee
                ELSE \E i \in passers :
                        /\ chosen = options.employees[i].id
                        /\ \A j \in passers \ {i} : RankedBefore(i, j, shiftType)

\* at a slot, two employees pass canAssign with equal team ratio and equal hours,
\* and the one who is later in the input is chosen for his higher suitability
C15_Witness ==
    /\ pc = "slot"
    /\ NoCohort
    /\ \E i, j \in DOMAIN options.employees :
          LET shiftType == Current.shiftType
          IN  /\ j < i
              /\ PassesCanAssign(i, Current.day, shiftType)
              /\ PassesCanAssign(j, Current.day, shiftType)
              /\ ~LowerRatio(i, j) /\ ~LowerRatio(j, i)
              /\ HoursOf(i) = HoursOf(j)
              /\ ScoreOf(i, shiftType) > ScoreOf(j, shiftType)
              /\ selectCandidate(options, Engine, teamTargets, Current.day,
                                 shiftType).employeeId = options.employees[i].id

\* at a slot, an employee of a team without target passes canAssign and another
\* employee with more hours is chosen before him
C15_WitnessNoTarget ==
    /\ pc = "slot"
    /\ NoCohort
    /\ \E i, j \in DOMAIN options.employees :
          /\ TargetOf(j) = 0
          /\ PassesCanAssign(i, Current.day, Current.shiftType)
          /\ PassesCanAssign(j, Current.day, Current.shiftType)
          /\ HoursOf(i) > HoursOf(j)
          /\ selectCandidate(options, Engine, teamTargets, Current.day,
                             Current.shiftType).employeeId = options.employees[i].id

\* the priority group of a shift type name: 1 for names starting with "3" or "4",
\* 2 for "2", 3 for "0" or "1", 4 for all others
GroupOf(name) ==
    CASE name \in {"3N", "4N"} -> 1
      [] name \in {"2A. VM", "2A. NM", "2B. VM", "2B. NM"} -> 2
      [] name \in {"0.", "1. VM", "1. NM"} -> 3
      [] OTHER -> 4

\* the scheduling days of the week that is being filled
DaysOfWeek ==
    {d \in weekStart..(weekStart + 6) : d <= options.endDate /\ getWeekdayName(d) # NoDay}

\* the slots of shift type name on day were attempted before the j-th attempt
AttemptedBefore(day, name, j) ==
    \E i \in 1..(j - 1) : attempted[i].day = day /\ attempted[i].name = name

\* C16 - Priority order within a week: when the slots of a shift type are
\* attempted, the slots of every shift type of a group of higher priority
\* ("3"/"4", then "2", then "0"/"1", then the rest) have been attempted for all
\* weekdays of the week, and when "0." is attempted on a day "1. VM" has been
\* attempted on that day.
C16_PriorityOrder ==
    \A j \in DOMAIN attempted :
        /\ \A k \in DOMAIN options.shiftTypes : \A d \in DaysOfWeek :
               GroupOf(options.shiftTypes[k].name) < GroupOf(attempted[j].name)
                   => AttemptedBefore(d, options.shiftTypes[k].name, j)
        /\ \A i \in 1..(j - 1) :
               GroupOf(attempted[i].name) <= GroupOf(attempted[j].name)
        /\ (attempted[j].name = "0."
            /\ \E k \in DOMAIN options.shiftTypes : options.shiftTypes[k].name = "1. VM")
               => AttemptedBefore(attempted[j].day, "1. VM", j)

\* all slots of a week of two days were attempted for shift types of the four
\* groups that are given with "0." before "1. VM" and with a shift type of the
\* last group before one of the first group
C16_Witness ==
    /\ pc = "shift"
    /\ pos > Len(WeekPlan(options, weekStart))
    /\ Cardinality(DaysOfWeek) = 2
    /\ {GroupOf(attempted[i].name) : i \in DOMAIN attempted} = {1, 2, 3, 4}
    /\ \E k1, k2 \in DOMAIN options.shiftTypes :
          k1 < k2 /\ options.shiftTypes[k1].name = "0." /\ options.shiftTypes[k2].name = "1. VM"
    /\ \E k1, k2 \in DOMAIN options.shiftTypes :
          /\ k1 < k2
          /\ GroupOf(options.shiftTypes[k1].name) = 4
          /\ GroupOf(options.shiftTypes[k2].name) = 1

\* the record of the employee, and of the shift type, of the last direct call
ProbeEmployee == CHOOSE e \in Range(options.employees) : e.id = probe.employeeId

ProbeShift == CHOOSE st \in Range(options.shiftTypes) : st.id = probe.shiftId

\* weekday name of a day number, "weekend" for Saturday and Sunday
DayName(d) ==
    <<"monday", "tuesday", "wednesday", "thursday", "friday", "weekend", "weekend">>[(d % 7) + 1]

MinutesOf(t) == t.h * 60 + t.m

\* some absence record of the employee covers the date, start and end included
CoveredByAbsence(employeeId, d) ==
    \E i \in DOMAIN options.absences :
        /\ options.absences[i].employeeId = employeeId
        /\ options.absences[i].startDate <= d
        /\ d <= options.absences[i].endDate

\* the engine's own state
EngineState ==
    <<assignments, conflicts, employeeWorkloads, teamWorkloads, teamTargets,
      vmAssignmentsByDate, apprenticeIndices, apprenticeShiftCounts>>

\* C17 - Availability predicate: isEmployeeAvailable is false if an absence of
\* the employee covers the date or the date is a Saturday or Sunday; otherwise,
\* for a shift that does not wrap past midnight, it is true exactly when the AM
\* flag of the weekday is true if the shift starts before 12:00 and the PM flag
\* is true if the shift ends at or after 12:00 or starts at or after 12:00.  It
\* changes no state.
C17_AvailabilityPredicate ==
    /\ [](probe.fn = "isEmployeeAvailable" =>
            LET employee == ProbeEmployee
                shiftType == ProbeShift
                day == DayName(probe.date)
                start == MinutesOf(shiftType.startTime)
                end == MinutesOf(shiftType.endTime)
                blocked == CoveredByAbsence(employee.id, probe.date) \/ day = "weekend"
            IN  /\ blocked => ~probe.returned
                /\ (~blocked /\ end >= start) =>
                       ( probe.returned <=>
                           /\ start < 12 * 60 => <<day, "AM">> \in employee.availability
                           /\ (end >= 12 * 60 \/ start >= 12 * 60)
                                  => <<day, "PM">> \in employee.availability ))
    /\ [][probe'.fn = "isEmployeeAvailable" => UNCHANGED <<EngineState, options>>]_vars

\* the predicate returned false for a weekday without absence and a shift that
\* starts before 12:00 and ends after it, for an employee with the AM flag only
C17_Witness ==
    /\ probe.fn = "isEmployeeAvailable"
    /\ ~probe.returned
    /\ ~CoveredByAbsence(probe.employeeId, probe.date)
    /\ DayName(probe.date) # "weekend"
    /\ MinutesOf(ProbeShift.startTime) < 12 * 60
    /\ MinutesOf(ProbeShift.endTime) >= 12 * 60
    /\ <<DayName(probe.date), "AM">> \in ProbeEmployee.availability
    /\ <<DayName(probe.date), "PM">> \notin ProbeEmployee.availability

\* the day offset the rule asks for: 0 for a same-day rule, otherwise the step
OffsetOf(rule, step) == IF rule.sameDay THEN 0 ELSE step

\* C18 - Forbidden-sequence predicate: violatesForbiddenSequence(employee, date,
\* shift) is true exactly when a forbidden_sequence rule r and an assignment a of
\* that employee (primary or follow-up) exist with a.shift = r.from, shift in
\* r.to and date - a.date = 0 for a same-day rule, 1 otherwise; or shift =
\* r.from, a.shift in r.to and date - a.date = 0 for a same-day rule, -1
\* otherwise.  Other employees' assignments and other rules do not count.
C18_ForbiddenPredicate ==
    probe.fn = "violatesForbiddenSequence" =>
        ( probe.returned <=>
            \E r \in DOMAIN options.shiftRules : \E i \in DOMAIN assignments :
                LET rule == options.shiftRules[r]
                    a == assignments[i]
                IN  /\ rule.type = "forbidden_sequence"
                    /\ a.employeeId = probe.employeeId
                    /\ \/ /\ a.shiftId = rule.fromShiftId
                          /\ probe.shiftId \in rule.toShiftIds
                          /\ probe.date - a.date = OffsetOf(rule, 1)
                       \/ /\ probe.shiftId = rule.fromShiftId
                          /\ a.shiftId \in rule.toShiftIds
                          /\ probe.date - a.date = OffsetOf(rule, -1) )

\* the predicate returned true for the from-shift of a next-day rule on the day
\* before a follow-up assignment of its to-shift, with rules of other kinds around
C18_Witness ==
    /\ probe.fn = "violatesForbiddenSequence"
    /\ probe.returned
    /\ \E r \in DOMAIN options.shiftRules : options.shiftRules[r].type # "forbidden_sequence"
    /\ \E r \in DOMAIN options.shiftRules : \E i \in DOMAIN assignments :
          /\ options.shiftRules[r].type = "forbidden_sequence"
          /\ ~options.shiftRules[r].sameDay
          /\ options.shiftRules[r].fromShiftId = probe.shiftId
          /\ assignments[i].employeeId = probe.employeeId
          /\ assignments[i].isFollowUp
          /\ assignments[i].shiftId \in options.shiftRules[r].toShiftIds
          /\ assignments[i].date = probe.date + 1

\* the demand of a shift type on a day number: 0 on Saturday and Sunday
DemandOn(shiftType, d) ==
    IF DayName(d) \in DOMAIN shiftType.weeklyNeeds THEN shiftType.weeklyNeeds[DayName(d)] ELSE 0

\* every date an assignment can be on: the past week, the range, the day after
AllDates == 0..(options.endDate + 1)

WithinDemand(list) ==
    \A d \in AllDates : \A k \in DOMAIN options.shiftTypes :
        Filled(list, d, options.shiftTypes[k].id) <= DemandOn(options.shiftTypes[k], d)

\* C19 - Coverage never exceeds demand: when the existing assignments do not
\* exceed it, at every point of a run and for every date and shift type the
\* number of assignments (primaries and follow-ups) of that (date, shift) is at
\* most the demand of the shift for that weekday.
C19_CoverageWithinDemand ==
    (pc \in {"week", "shift", "slot", "done"} /\ WithinDemand(options.existingAssignments))
        => WithinDemand(assignments)

\* a returned plan in which the demand of a follow-up shift is met by a follow-up
\* and by nothing more, although another employee who holds the triggering
\* primary, is allowed and available for the follow-up shift and is free on the
\* follow-up date did not get it
C19_Witness ==
    /\ result.returned
    /\ WithinDemand(options.existingAssignments)
    /\ \E r \in DOMAIN options.shiftRules : \E i, j \in DOMAIN assignments :
          LET rule == options.shiftRules[r]
              a == assignments[i]
              employee == FindEmployee(options, a.employeeId)
              toShift == shiftMap(options, rule.toShiftId)
              followDate == IF rule.sameDay THEN a.date ELSE a.date + 1
          IN  /\ rule.type = "mandatory_follow_up"
              /\ origin[i] \in {"ranked", "fallback"}
              /\ a.shiftId = rule.fromShiftId
              /\ toShift.id \in employee.allowedShifts
              /\ isEmployeeAvailable(options, employee, followDate, toShift)
              /\ \A n \in DOMAIN assignments :
                     (assignments[n].employeeId = a.employeeId
                      /\ assignments[n].date = followDate) => n = i
              /\ origin[j] = "followUp"
              /\ assignments[j].date = followDate
              /\ assignments[j].shiftId = toShift.id
              /\ Filled(assignments, followDate, toShift.id) = DemandOn(toShift, followDate)

\* employees i and j are apprentices of the same year
SameCohort(i, j) ==
    LET a == options.employees[i]
        b == options.employees[j]
    IN  /\ a.employeeType = "azubi" /\ b.employeeType = "azubi"
        /\ a.lehrjahr # 0 /\ a.lehrjahr = b.lehrjahr

\* how often employee i was assigned the shift type, as the engine counts it
UsageOf(i, shiftType) ==
    apprenticeShiftCounts[options.employees[i].lehrjahr][shiftType.id][options.employees[i].id]

\* C20 - Least-used apprentice preference: when ranked selection commits shift S
\* to an apprentice of a cohort with more than one member, no other member of
\* that cohort who passes canAssign at that moment has a strictly lower usage
\* count for S.
C20_LeastUsedApprentice ==
    [][(CommitsPrimary /\ origin'[Len(assignments) + 1] = "ranked") =>
          \A i, j \in DOMAIN options.employees :
              ( /\ options.employees[i].id = NewPrimary.employeeId
                /\ i # j
                /\ SameCohort(i, j)
                /\ PassesCanAssign(j, Current.day, Current.shiftType) )
              => UsageOf(i, Current.shiftType) <= UsageOf(j, Current.shiftType)
      ]_vars

\* ---------------------------------------------------------------------------
\* C21
\* ---------------------------------------------------------------------------
\* the cohort of year 2 has two members, both allowed for "C" and always available
RotatingPair ==
    /\ Len(apprenticeList(options, 2)) = 2
    /\ KnownShift(options, "c")
    /\ \A e \in apprenticesByYear(options, 2) :
          /\ "c" \in e.allowedShifts
          /\ e.availability = AllSlots
          /\ \A a \in Range(options.absences) : a.employeeId # e.id

\* the number of the week of date d in the horizon, from 0
WeekNumber(d) == (getWeekKey(d) - getWeekKey(options.startDate)) \div 7

\* the member of the cohort whose turn the week of date d is
TurnOf(d) == apprenticeList(options, 2)[(WeekNumber(d) % 2) + 1]

\* every "C" held by a member of the cohort is held by the member whose turn the
\* week of its date is
HeldByTurn ==
    \A i \in DOMAIN assignments :
        (/\ origin[i] = "ranked"
         /\ assignments[i].shiftId = "c"
         /\ assignments[i].employeeId \in Range(apprenticeList(options, 2)))
        => assignments[i].employeeId = TurnOf(assignments[i].date)

ProbeOvernightMorning ==
    /\ probe.fn = "isEmployeeAvailable"
    /\ MinutesOf(ProbeShift.endTime) < MinutesOf(ProbeShift.startTime)
    /\ ProbeShift.endTime.h < 12

\* C22 - Overnight spillover: isEmployeeAvailable called for a shift whose end
\* time is earlier than its start time and whose end hour is before noon, the
\* hour 0 included, on a date whose next day is a weekday, returns false when the
\* employee's "_AM" flag of that next weekday is not true.
C22_OvernightSpillover ==
    (/\ ProbeOvernightMorning
     /\ getWeekdayName(probe.date + 1) # NoDay
     /\ <<getWeekdayName(probe.date + 1), "AM">> \notin ProbeEmployee.availability)
    => ~probe.returned

\* the same for the shifts whose end hour is from 1 to 11
C22_OvernightSpilloverAfterOne ==
    (ProbeOvernightMorning /\ ProbeShift.endTime.h > 0) => C22_OvernightSpillover

\* ---------------------------------------------------------------------------
\* C23
\* ---------------------------------------------------------------------------
\* C23 - Alphabetical tail: of two shift types of the last group (no prefix "0"
\* to "4") that are attempted on the same day, the one whose name comes first in
\* the alphabet is attempted first, whatever the order of the input.
C23_AlphabeticalTail ==
    \A i \in DOMAIN attempted : \A j \in DOMAIN attempted :
        (/\ i < j
         /\ attempted[i].day = attempted[j].day
         /\ GroupOf(attempted[i].name) = 4
         /\ GroupOf(attempted[j].name) = 4)
        => NameIndex(attempted[i].name) < NameIndex(attempted[j].name)

\* ---------------------------------------------------------------------------
\* C24
\* ---------------------------------------------------------------------------
\* the assignments of list with a known shift type that employee e holds
CountedOf(list, e) ==
    {i \in DOMAIN list : list[i].employeeId = e /\ KnownShift(options, list[i].shiftId)}

RECURSIVE MinutesOver(_, _)
\* the sum of the lengths, in minutes, of the shift types of the assignments of
\* list with the indices S
MinutesOver(list, S) ==
    IF S = {} THEN 0
    ELSE LET i == CHOOSE x \in S : TRUE
             st == shiftMap(options, list[i].shiftId)
             from == MinutesOf(st.startTime)
             to == MinutesOf(st.endTime)
         IN  (IF to < from THEN to + 1440 - from ELSE to - from)
             + MinutesOver(list, S \ {i})

\* C24 - Counters match the plan: in every state of a run, for each input
\* employee e, the shift counter of e is the number of assignments of e with a
\* known shift type (existing, primary and follow-up), the hours of e are the sum
\* of the lengths of these shifts, the worked dates of e are the dates of these
\* assignments, and the counter of every team is the number of such assignments
\* held by the input employees of the team.
C24_CountersMatchPlan ==
    /\ \A e \in EmployeeIds :
          /\ employeeWorkloads[e].shifts = Cardinality(CountedOf(assignments, e))
          /\ employeeWorkloads[e].hours = MinutesOver(assignments, CountedOf(assignments, e))
          /\ employeeWorkloads[e].daysWorkedThisPeriod
                 = {assignments[i].date : i \in CountedOf(assignments, e)}
    /\ \A t \in DOMAIN teamWorkloads :
          teamWorkloads[t] =
              Cardinality(UNION {CountedOf(assignments, options.employees[k].id) :
                                    k \in {x \in DOMAIN options.employees :
                                              options.employees[x].teamId = t}})
    /\ pc = "done" =>
          /\ result.statistics.employeeWorkloads = employeeWorkloads
          /\ result.statistics.teamWorkloads = teamWorkloads

\* a run has returned in which an employee holds a primary and a follow-up made
\* by the run and an employee holds an existing assignment and a primary made by
\* the run
C24_Witness ==
    /\ pc = "done"
    /\ \E e \in EmployeeIds :
          \E j \in CountedOf(assignments, e), k \in CountedOf(assignments, e) :
             /\ origin[j] \in {"ranked", "fallback"}
             /\ origin[k] = "followUp"
    /\ \E e \in EmployeeIds :
          \E i \in CountedOf(assignments, e), j \in CountedOf(assignments, e) :
             /\ origin[i] = "existing"
             /\ origin[j] \in {"ranked", "fallback"}
    /\ \E e \in EmployeeIds : employeeWorkloads[e].hours > 0

\* a run has returned that was given an existing assignment of an unknown shift
\* type and one of an unknown employee, and that made assignments of its own
C24_WitnessUnknown ==
    /\ pc = "done"
    /\ \E i \in DOMAIN assignments : ~KnownShift(options, assignments[i].shiftId)
    /\ \E i \in DOMAIN assignments : ~KnownEmployee(options, assignments[i].employeeId)
    /\ \E i \in DOMAIN assignments : origin[i] = "ranked"

\* ---------------------------------------------------------------------------
\* C25
\* ---------------------------------------------------------------------------
RECURSIVE DemandUnits(_)
\* the sum of the demand of the (date, shift type index) pairs of P
DemandUnits(P) ==
    IF P = {} THEN 0
    ELSE LET p == CHOOSE x \in P : TRUE
         IN  DemandOn(options.shiftTypes[p[2]], p[1]) + DemandUnits(P \ {p})

\* the demand units of the Monday-Friday dates of [startDate, endDate]
TotalSlots ==
    DemandUnits({d \in options.startDate..options.endDate : DayName(d) # "weekend"}
                \X DOMAIN options.shiftTypes)

\* r is the integer nearest to percentage / 100 * slots, the upper one of two
IsRounded(r, percentage, slots) ==
    /\ 100 * (2 * r - 1) <= 2 * percentage * slots
    /\ 2 * percentage * slots < 100 * (2 * r + 1)

\* C25 - Team target: in every state the target of every team is
\* round(overallShiftPercentage / 100 * totalSlots), totalSlots being the sum of
\* the demand of every shift type on every Monday-Friday date of
\* [startDate, endDate]; and after construction the counter of every team is the
\* number of existing assignments that were counted for it, 0 when there is none.
C25_TeamTarget ==
    /\ DOMAIN teamTargets = TeamIds(options)
    /\ \A k \in DOMAIN options.teams :
          IsRounded(teamTargets[options.teams[k].id],
                    options.teams[k].overallShiftPercentage, TotalSlots)
    /\ (pc = "week" /\ firstWeek) =>
          \A k \in DOMAIN options.teams :
              teamWorkloads[options.teams[k].id] =
                  Cardinality({i \in DOMAIN options.existingAssignments :
                      LET a == options.existingAssignments[i]
                      IN  /\ KnownShift(options, a.shiftId)
                          /\ KnownEmployee(options, a.employeeId)
                          /\ FindEmployee(options, a.employeeId).teamId
                                 = options.teams[k].id})

\* a run over a range with a Saturday and a Sunday has returned in which a shift
\* type names a demand for Saturday and the target of a team was rounded up from
\* a half
C25_Witness ==
    /\ pc = "done"
    /\ options.endDate - options.startDate >= 6
    /\ \E j \in DOMAIN options.shiftTypes :
          /\ "saturday" \in DOMAIN options.shiftTypes[j].weeklyNeeds
          /\ options.shiftTypes[j].weeklyNeeds["saturday"] > 0
    /\ \E k \in DOMAIN options.teams :
          /\ (options.teams[k].overallShiftPercentage * TotalSlots) % 100 = 50
          /\ teamTargets[options.teams[k].id] > 0

\* a run is about to start with existing assignments of which some are counted for
\* a team and some for no team
C25_WitnessExisting ==
    /\ pc = "week" /\ firstWeek
    /\ \E t \in TeamIds(options) : teamWorkloads[t] = 0
    /\ \E t \in TeamIds(options) : teamWorkloads[t] > 0
    /\ \E i \in DOMAIN options.existingAssignments :
          ~KnownShift(options, options.existingAssignments[i].shiftId)

\* ---------------------------------------------------------------------------
\* C26
\* ---------------------------------------------------------------------------
\* a mandatory follow-up rule whose toShiftId, or a forbidden sequence rule
\* whose fromShiftId and toShiftIds, name no shift type of the input
IsDangling(rule) ==
    \/ /\ rule.type = "mandatory_follow_up"
       /\ ~KnownShift(options, rule.toShiftId)
    \/ /\ rule.type = "forbidden_sequence"
       /\ ~KnownShift(options, rule.fromShiftId)
       /\ \A id \in rule.toShiftIds : ~KnownShift(options, id)

\* the options of the run without the dangling rules
WithoutDangling ==
    [options EXCEPT !.shiftRules = SelectSeq(@, LAMBDA rule : ~IsDangling(rule))]

\* C26 - Dangling rule references are ignored: the engine is constructed alike
\* with and without the dangling rules, and every pass of the slot loop of the
\* run with them chooses the employee, commits the assignments and records the
\* conflicts that the same pass makes without them from the same engine state;
\* so both runs return the same assignments and the same conflicts, and none of
\* the conflicts is about a dangling rule.
C26_DanglingRulesIgnored ==
    /\ []((pc = "week" /\ firstWeek) =>
            /\ Construct(WithoutDangling) = Engine
            /\ initializeTeamTargets(WithoutDangling) = teamTargets)
    /\ []((pc = "shift") => WeekPlan(WithoutDangling, weekStart) = WeekPlan(options, weekStart))
    /\ [][(pc = "slot" /\ assignedCount < Need) =>
            LET cur == Current
                choice == chooseEmployee(WithoutDangling, Engine, teamTargets,
                                         vmAssignmentsByDate, cur.day, cur.shiftType)
                after == commitSlot(WithoutDangling,
                                    [Engine EXCEPT !.conflicts = @ \o choice.pushed],
                                    FindEmployee(options, choice.employeeId),
                                    cur.day, cur.shiftType)
            IN  IF choice.employeeId # NoEmployee
                THEN /\ assignments' = after.assignments
                     /\ conflicts' = after.conflicts
                     /\ origin'[Len(assignments) + 1] = choice.by
                ELSE /\ assignments' = assignments
                     /\ conflicts' = conflicts \o choice.pushed
                                     \o <<ConflictNoPerson(cur.shiftType, cur.day)>>
          ]_vars
    /\ [](\A i \in DOMAIN conflicts : conflicts[i].shift \notin {"gone", "lost", NoShift})

\* a run with a dangling mandatory follow-up rule and a dangling forbidden
\* sequence rule has returned; it committed a primary of the shift type that
\* triggers the dangling follow-up rule and a follow-up of a rule that is not
\* dangling
C26_Witness ==
    /\ pc = "done"
    /\ \E r \in DOMAIN options.shiftRules :
          /\ options.shiftRules[r].type = "mandatory_follow_up"
          /\ IsDangling(options.shiftRules[r])
          /\ \E i \in DOMAIN assignments :
                /\ origin[i] \in {"ranked", "fallback"}
                /\ assignments[i].shiftId = options.shiftRules[r].fromShiftId
    /\ \E r \in DOMAIN options.shiftRules :
          /\ options.shiftRules[r].type = "forbidden_sequence"
          /\ IsDangling(options.shiftRules[r])
    /\ "followUp" \in Range(origin)

\* ---------------------------------------------------------------------------
\* C27
\* ---------------------------------------------------------------------------
\* the indices of the follow-ups that the step has pushed
NewFollowUps ==
    {i \in DOMAIN assignments' : i > Len(assignments) /\ assignments'[i].isFollowUp}

\* the follow-up of rule for the holder of assignment f can be placed in list:
\* the target is known, allowed and available, the holder has no primary and not
\* this shift on its date, and the demand of the date is not met
Placeable(list, f, rule) ==
    /\ KnownShift(options, rule.toShiftId)
    /\ KnownEmployee(options, f.employeeId)
    /\ LET toShift == shiftMap(options, rule.toShiftId)
           employee == FindEmployee(options, f.employeeId)
           d == IF rule.sameDay THEN f.date ELSE f.date + 1
       IN  /\ ~(employee.lehrjahr = 1 /\ rule.sameDay)
           /\ toShift.id \in employee.allowedShifts
           /\ isEmployeeAvailable(options, employee, d, toShift)
           /\ \A k \in DOMAIN list :
                 (list[k].employeeId = employee.id /\ list[k].date = d)
                     => (list[k].isFollowUp /\ list[k].shiftId # toShift.id)
           /\ Cardinality({k \in DOMAIN list : list[k].date = d
                                               /\ list[k].shiftId = toShift.id})
                  < DemandOn(toShift, d)

\* C27 - Follow-up chaining is not bounded by the engine: a follow-up that a
\* commit pushes triggers the mandatory follow-up rules keyed by its own shift
\* type, so after the commit no rule keyed by the shift type of a pushed follow-up
\* is left whose follow-up could still be placed.
C27_FollowUpChaining ==
    [][\A i \in NewFollowUps : \A r \in DOMAIN options.shiftRules :
          (/\ options.shiftRules[r].type = "mandatory_follow_up"
           /\ options.shiftRules[r].fromShiftId = assignments'[i].shiftId)
          => ~Placeable(assignments', assignments'[i], options.shiftRules[r])
      ]_vars

\* C27 (amended) - Follow-ups are one level deep: every assignment that a pass
\* of the slot loop pushes after the primary is a follow-up of the same employee
\* for the toShiftId of a mandatory follow-up rule keyed by the shift type of the
\* primary, on the date of the primary or the day after as the rule says; a
\* follow-up triggers no rule, and a pass pushes at most one follow-up per rule.
C27_FollowUpOneLevel ==
    [][(pc = "slot" /\ Len(assignments') > Len(assignments)) =>
          LET primary == assignments'[Len(assignments) + 1]
              pushed == (Len(assignments) + 2)..Len(assignments')
              keyed == {r \in DOMAIN options.shiftRules :
                           /\ options.shiftRules[r].type = "mandatory_follow_up"
                           /\ options.shiftRules[r].fromShiftId = primary.shiftId}
          IN  /\ ~primary.isFollowUp
              /\ Cardinality(pushed) <= Cardinality(keyed)
              /\ \A i \in pushed :
                    /\ assignments'[i].isFollowUp
                    /\ assignments'[i].employeeId = primary.employeeId
                    /\ \E r \in keyed :
                          /\ options.shiftRules[r].toShiftId = assignments'[i].shiftId
                          /\ assignments'[i].date =
                                 (IF options.shiftRules[r].sameDay THEN primary.date
                                  ELSE primary.date + 1)
      ]_vars

\* a run with the rules A -> B and B -> A (next day) has returned: an employee
\* holds a primary of A and the follow-up B of the next day, and the follow-up
\* of the rule keyed by B was not pushed for him although it could be placed
\* when B was pushed (A has demand two days after the primary)
C27_Witness ==
    /\ pc = "done"
    /\ options.shiftRules = <<Mandatory("a", "b", FALSE), Mandatory("b", "a", FALSE)>>
    /\ \E i \in DOMAIN assignments : \E j \in DOMAIN assignments :
          /\ origin[i] \in {"ranked", "fallback"}
          /\ assignments[i].shiftId = "a"
          /\ j = i + 1
          /\ origin[j] = "followUp"
          /\ assignments[j].shiftId = "b"
          /\ assignments[j].employeeId = assignments[i].employeeId
          /\ assignments[j].date = assignments[i].date + 1
          /\ Placeable(SubSeq(assignments, 1, j), assignments[j], options.shiftRules[2])
          /\ \A k \in DOMAIN assignments :
                (assignments[k].employeeId = assignments[i].employeeId
                 /\ assignments[k].date = assignments[i].date + 2) => ~assignments[k].isFollowUp

\* ---------------------------------------------------------------------------
\* C28
\* ---------------------------------------------------------------------------
\* no two assignments of list have the same employee, date and shift type
NoDuplicateSlot(list) ==
    \A i \in DOMAIN list : \A j \in DOMAIN list :
        (/\ i # j
         /\ list[i].employeeId = list[j].employeeId
         /\ list[i].date = list[j].date)
        => list[i].shiftId # list[j].shiftId

\* C28 - No employee fills two slots of the same shift: when the existing
\* assignments contain no duplicate, in every state of a run no employee holds
\* two assignments of the same date and shift type, primary or follow-up.
C28_NoDuplicateSlot ==
    NoDuplicateSlot(options.existingAssignments) => NoDuplicateSlot(assignments)

\* ---------------------------------------------------------------------------
\* C29
\* ---------------------------------------------------------------------------
\* C29 - Assignments stay inside the plan: every assignment that a run has
\* pushed, primary or follow-up, is on a Monday-Friday date of
\* [startDate, endDate].
C29_InsidePlan ==
    \A i \in DOMAIN assignments :
        origin[i] # "existing" =>
            /\ assignments[i].date >= options.startDate
            /\ assignments[i].date <= options.endDate
            /\ DayName(assignments[i].date) # "weekend"

\* no assignment pushed by a run is on a Saturday or a Sunday, and every primary
\* is on a date of [startDate, endDate]
C29_WeekdaysOnly ==
    \A i \in DOMAIN assignments :
        origin[i] # "existing" =>
            /\ DayName(assignments[i].date) # "weekend"
            /\ ~assignments[i].isFollowUp =>
                  /\ assignments[i].date >= options.startDate
                  /\ assignments[i].date <= options.endDate

\* ---------------------------------------------------------------------------
\* C30
\* ---------------------------------------------------------------------------
\* C30 - Re-running is a fixed point on assignments: the second call, made with
\* the same options and with the assignment list returned by the first call as
\* existingAssignments, returns exactly that list, and the hours and the shift
\* count of every employee that it returns are those of the first call.
C30_RerunFixedPoint ==
    (pc = "done" /\ previous.returned) =>
        /\ options.existingAssignments = previous.assignments
        /\ result.assignments = previous.assignments
        /\ DOMAIN result.statistics.employeeWorkloads
               = DOMAIN previous.statistics.employeeWorkloads
        /\ \A e \in DOMAIN result.statistics.employeeWorkloads :
              /\ result.statistics.employeeWorkloads[e].hours
                     = previous.statistics.employeeWorkloads[e].hours
              /\ result.statistics.employeeWorkloads[e].shifts
                     = previous.statistics.employeeWorkloads[e].shifts

\* the second call has returned after a first call that made primaries and a
\* follow-up and left demand unmet, so that the second call tried slots again
C30_Witness ==
    /\ pc = "done"
    /\ previous.returned
    /\ \E i \in DOMAIN previous.assignments : previous.assignments[i].isFollowUp
    /\ \E i \in DOMAIN previous.assignments : ~previous.assignments[i].isFollowUp
    /\ \E i \in DOMAIN previous.conflicts :
          previous.conflicts[i].kind = "Keine verfuegbare Person"
    /\ \E i \in DOMAIN result.conflicts :
          result.conflicts[i].kind = "Keine verfuegbare Person"
    /\ \E e \in DOMAIN result.statistics.employeeWorkloads :
          result.statistics.employeeWorkloads[e].hours > 0

====
